---- MODULE Spec2Model ----
(***************************************************************************)
(* DNS console (fricker-studios/dns-ui): the record validator, the FQDN    *)
(* helpers and the zone-file compiler of lib/bind, and the client store    *)
(* with the dialogs that stage record sets into it.                        *)
(*                                                                         *)
(* Strings are sequences of one-character strings, so that trimming,       *)
(* suffix tests, splitting and replacement are computed as the code        *)
(* computes them.                                                          *)
(***************************************************************************)
EXTENDS Integers, Sequences, FiniteSets, TLC

\* ------------------------------------------------------------------ bounds
MaxValues == 2
MaxStaged == 1
MaxRows == 2
MaxCreatedZones == 1
MaxRenderSets == 2
MaxNameServers == 2
MaxUid == 8
MaxPending == 2

\* ----------------------------------------------------------- JS primitives
\* An optional number is <<>> when undefined and <<n>> when it carries n.
None == <<>>
Some(n) == <<n>>
\* null is a pair, so that it differs from undefined and from every number.
Null == <<0, 0>>
NaN == <<>>

Whitespace == {" "}
Digits == {"0", "1", "2", "3", "4", "5", "6", "7", "8", "9"}
HexLetters == {"a", "b", "c", "d", "e", "f", "A", "B", "C", "D", "E", "F"}

RECURSIVE TrimStart(_)
TrimStart(s) ==
  IF s # <<>> /\ Head(s) \in Whitespace THEN TrimStart(Tail(s)) ELSE s

RECURSIVE TrimEnd(_)
TrimEnd(s) ==
  IF s # <<>> /\ s[Len(s)] \in Whitespace
    THEN TrimEnd(SubSeq(s, 1, Len(s) - 1))
    ELSE s

Trim(s) == TrimEnd(TrimStart(s))

EndsWith(s, c) == s # <<>> /\ s[Len(s)] = c

StartsWith(s, p) == Len(s) >= Len(p) /\ SubSeq(s, 1, Len(p)) = p

Includes(s, c) == \E i \in 1..Len(s) : s[i] = c

\* Index of the first occurrence of pat in s, 0 when there is none.
IndexOf(s, pat) ==
  LET hits == {i \in 1..(Len(s) - Len(pat) + 1) : SubSeq(s, i, i + Len(pat) - 1) = pat}
  IN IF hits = {} THEN 0 ELSE CHOOSE i \in hits : \A j \in hits : i <= j

\* String.prototype.replace with a string pattern: the first occurrence only.
ReplaceFirst(s, pat, rep) ==
  LET i == IndexOf(s, pat)
  IN IF i = 0 THEN s
     ELSE SubSeq(s, 1, i - 1) \o rep \o SubSeq(s, i + Len(pat), Len(s))

\* replace(/\.$/, "")
StripTrailingDot(s) ==
  IF EndsWith(s, ".") THEN SubSeq(s, 1, Len(s) - 1) ELSE s

RECURSIVE Split(_, _)
Split(s, c) ==
  LET hits == {i \in 1..Len(s) : s[i] = c}
  IN IF hits = {} THEN <<s>>
     ELSE LET i == CHOOSE k \in hits : \A j \in hits : k <= j
          IN <<SubSeq(s, 1, i - 1)>> \o Split(SubSeq(s, i + 1, Len(s)), c)

RECURSIVE Join(_, _)
Join(parts, sep) ==
  IF parts = <<>> THEN <<>>
  ELSE IF Len(parts) = 1 THEN parts[1]
  ELSE parts[1] \o sep \o Join(Tail(parts), sep)

DigitValue(c) ==
  CASE c = "0" -> 0 [] c = "1" -> 1 [] c = "2" -> 2 [] c = "3" -> 3 [] c = "4" -> 4
    [] c = "5" -> 5 [] c = "6" -> 6 [] c = "7" -> 7 [] c = "8" -> 8 [] c = "9" -> 9

DigitChar(n) ==
  CASE n = 0 -> "0" [] n = 1 -> "1" [] n = 2 -> "2" [] n = 3 -> "3" [] n = 4 -> "4"
    [] n = 5 -> "5" [] n = 6 -> "6" [] n = 7 -> "7" [] n = 8 -> "8" [] n = 9 -> "9"

RECURSIVE DigitPrefix(_)
DigitPrefix(s) ==
  IF s # <<>> /\ Head(s) \in Digits THEN <<Head(s)>> \o DigitPrefix(Tail(s)) ELSE <<>>

RECURSIVE DigitsValue(_)
DigitsValue(ds) ==
  IF ds = <<>> THEN 0
  ELSE DigitsValue(SubSeq(ds, 1, Len(ds) - 1)) * 10 + DigitValue(ds[Len(ds)])

\* parseInt(part, 10): leading whitespace skipped, an optional sign, then the
\* longest run of digits; NaN when that run is empty, <<n>> otherwise.
ParseInt(part) ==
  LET t == TrimStart(part)
      signed == t # <<>> /\ Head(t) \in {"+", "-"}
      body == IF signed THEN Tail(t) ELSE t
      ds == DigitPrefix(body)
  IN IF ds = <<>> THEN NaN
     ELSE IF signed /\ Head(t) = "-" THEN <<0 - DigitsValue(ds)>> ELSE <<DigitsValue(ds)>>

RECURSIVE NatToString(_)
NatToString(n) ==
  IF n < 10 THEN <<DigitChar(n)>> ELSE NatToString(n \div 10) \o <<DigitChar(n % 10)>>

\* Number.prototype.toString for an integer
NumToString(n) == IF n < 0 THEN <<"-">> \o NatToString(0 - n) ELSE NatToString(n)

\* ------------------------------------------------------------ FQDN helpers
\* A normalizeFqdn that appends the dot without looking at the end.
normalizeFqdnAlwaysDot(s) ==
  LET t == Trim(s)
  IN IF t = <<>> THEN <<>> ELSE t \o <<".">>

normalizeFqdn(s) ==
  LET t == Trim(s)
  IN IF t = <<>> THEN <<>>
     ELSE IF EndsWith(t, ".") THEN t ELSE t \o <<".">>

humanizeZoneName(z) == IF EndsWith(z, ".") THEN SubSeq(z, 1, Len(z) - 1) ELSE z

\* An fqdnJoin that appends the zone to every label.
fqdnJoinAlwaysAppend(label, zoneName) ==
  LET z == normalizeFqdn(zoneName)
      l == Trim(IF label = <<>> THEN <<"@">> ELSE label)
  IN IF l = <<"@">> \/ l = <<>> THEN z
     ELSE normalizeFqdn(l \o <<".">> \o z)

fqdnJoin(label, zoneName) ==
  LET z == normalizeFqdn(zoneName)
      l == Trim(IF label = <<>> THEN <<"@">> ELSE label)
  IN IF l = <<"@">> \/ l = <<>> THEN z
     ELSE IF EndsWith(l, ".") THEN l
     ELSE normalizeFqdn(l \o <<".">> \o z)

\* --------------------------------------------------------------- validator
RecordTypes == {"A", "AAAA", "CNAME", "MX", "TXT", "SRV", "NS", "PTR", "CAA"}

\* An isValidIPv4 without the comparison of each part with its number's text.
isValidIPv4Loose(ip) ==
  LET parts == Split(ip, ".")
  IN /\ Len(parts) = 4
     /\ \A i \in 1..Len(parts) :
          LET num == ParseInt(parts[i])
          IN /\ num # NaN
             /\ num[1] >= 0
             /\ num[1] <= 255

isValidIPv4(ip) ==
  LET parts == Split(ip, ".")
  IN /\ Len(parts) = 4
     /\ \A i \in 1..Len(parts) :
          LET num == ParseInt(parts[i])
          IN /\ num # NaN
             /\ num[1] >= 0
             /\ num[1] <= 255
             /\ parts[i] = NumToString(num[1])

isValidIPv6(ip) ==
  LET parts == Split(ip, ":")
  IN /\ Includes(ip, ":")
     /\ Len(parts) >= 3
     /\ Len(parts) <= 8
     /\ \A i \in 1..Len(parts) :
          /\ Len(parts[i]) <= 4
          /\ \A k \in 1..Len(parts[i]) : parts[i][k] \in Digits \cup HexLetters

CaaTags == {<<"i", "s", "s", "u", "e">>,
            <<"i", "s", "s", "u", "e", "w", "i", "l", "d">>,
            <<"i", "o", "d", "e", "f">>}

\* /^\d+\s+(issue|issuewild|iodef)\s+/.test(raw)
MatchesCaa(raw) ==
  LET ds == DigitPrefix(raw)
      r1 == SubSeq(raw, Len(ds) + 1, Len(raw))
      r2 == TrimStart(r1)
  IN /\ ds # <<>>
     /\ Len(r2) < Len(r1)
     /\ \E tag \in CaaTags :
          /\ StartsWith(r2, tag)
          /\ Len(r2) > Len(tag)
          /\ r2[Len(tag) + 1] \in Whitespace

\* A list of the types with FQDN targets that leaves MX out.
NeedsFqdnTypesWithoutMx == {"CNAME", "NS", "PTR", "SRV"}

NeedsFqdnTypes == {"CNAME", "NS", "PTR", "MX", "SRV"}

Msg(rule, raw) == [rule |-> rule, raw |-> raw]

\* A loop body that takes a priority of 0 for a missing one: !v.priority.
ValueErrorsFalsyPriority(type, v) ==
  LET raw == Trim(v.value)
  IN (IF raw = <<>> THEN <<Msg("Record value cannot be empty.", <<>>)>> ELSE <<>>)
     \o (IF type = "A" /\ ~isValidIPv4(raw)
           THEN <<Msg("Invalid IPv4 address", raw)>> ELSE <<>>)
     \o (IF type = "AAAA" /\ ~isValidIPv6(raw)
           THEN <<Msg("Invalid IPv6 address", raw)>> ELSE <<>>)
     \o (IF type \in NeedsFqdnTypes /\ ~EndsWith(raw, ".")
           THEN <<Msg("targets should end in . (FQDN)", <<>>)>> ELSE <<>>)
     \o (IF type = "MX" /\ (v.priority = None \/ v.priority = Null \/ v.priority = Some(0))
           THEN <<Msg("MX requires priority.", <<>>)>> ELSE <<>>)
     \o (IF type = "SRV" /\ (v.priority = None \/ v.weight = None \/ v.port = None)
           THEN <<Msg("SRV requires priority, weight, and port.", <<>>)>> ELSE <<>>)
     \o (IF type = "CAA" /\ ~MatchesCaa(raw)
           THEN <<Msg("CAA should look like: 0 issue letsencrypt.org", <<>>)>> ELSE <<>>)

\* The messages one value contributes, in the order the loop body pushes them.
ValueErrors(type, v) ==
  LET raw == Trim(v.value)
  IN (IF raw = <<>> THEN <<Msg("Record value cannot be empty.", <<>>)>> ELSE <<>>)
     \o (IF type = "A" /\ ~isValidIPv4(raw)
           THEN <<Msg("Invalid IPv4 address", raw)>> ELSE <<>>)
     \o (IF type = "AAAA" /\ ~isValidIPv6(raw)
           THEN <<Msg("Invalid IPv6 address", raw)>> ELSE <<>>)
     \o (IF type \in NeedsFqdnTypes /\ ~EndsWith(raw, ".")
           THEN <<Msg("targets should end in . (FQDN)", <<>>)>> ELSE <<>>)
     \o (IF type = "MX" /\ (v.priority = None \/ v.priority = Null)
           THEN <<Msg("MX requires priority.", <<>>)>> ELSE <<>>)
     \o (IF type = "SRV" /\ (v.priority = None \/ v.weight = None \/ v.port = None)
           THEN <<Msg("SRV requires priority, weight, and port.", <<>>)>> ELSE <<>>)
     \o (IF type = "CAA" /\ ~MatchesCaa(raw)
           THEN <<Msg("CAA should look like: 0 issue letsencrypt.org", <<>>)>> ELSE <<>>)

RECURSIVE AllValueErrors(_, _)
AllValueErrors(type, values) ==
  IF values = <<>> THEN <<>>
  ELSE ValueErrors(type, Head(values)) \o AllValueErrors(type, Tail(values))

\* A validator that stops at the first message.
validateFirstOnly(type, name, values) ==
  LET all == (IF Trim(name) = <<>> THEN <<Msg("Name is required.", <<>>)>> ELSE <<>>)
             \o (IF Len(values) = 0
                   THEN <<Msg("At least one value is required.", <<>>)>> ELSE <<>>)
             \o AllValueErrors(type, values)
  IN SubSeq(all, 1, IF Len(all) > 0 THEN 1 ELSE 0)

validateRecordInput(type, name, values) ==
  (IF Trim(name) = <<>> THEN <<Msg("Name is required.", <<>>)>> ELSE <<>>)
  \o (IF Len(values) = 0 THEN <<Msg("At least one value is required.", <<>>)>> ELSE <<>>)
  \o AllValueErrors(type, values)

\* ----------------------------------------------------------- zone compiler
\* a.localeCompare(b), approximated by comparing character by character in the
\* order the root collation gives the characters the model uses.
CollationOrder ==
  <<" ", "-", ":", ".", "\"", "@", "[", "]",
    "0", "1", "2", "3", "4", "5", "6", "7", "8", "9",
    "a", "A", "b", "B", "c", "C", "d", "D", "e", "E", "f", "F", "g", "h", "i", "j",
    "l", "m", "M", "n", "N", "o", "O", "p", "P", "r", "R", "s", "S", "t", "T", "u",
    "v", "V", "w", "x", "X", "y", "z">>

Rank(c) == CHOOSE i \in 1..Len(CollationOrder) : CollationOrder[i] = c

RECURSIVE localeCompare(_, _)
localeCompare(a, b) ==
  IF a = <<>> /\ b = <<>> THEN 0
  ELSE IF a = <<>> THEN -1
  ELSE IF b = <<>> THEN 1
  ELSE IF Rank(Head(a)) < Rank(Head(b)) THEN -1
  ELSE IF Rank(Head(a)) > Rank(Head(b)) THEN 1
  ELSE localeCompare(Tail(a), Tail(b))

TypeChars(t) ==
  CASE t = "A" -> <<"A">>
    [] t = "AAAA" -> <<"A", "A", "A", "A">>
    [] t = "CNAME" -> <<"C", "N", "A", "M", "E">>
    [] t = "MX" -> <<"M", "X">>
    [] t = "TXT" -> <<"T", "X", "T">>
    [] t = "SRV" -> <<"S", "R", "V">>
    [] t = "NS" -> <<"N", "S">>
    [] t = "PTR" -> <<"P", "T", "R">>
    [] t = "CAA" -> <<"C", "A", "A">>

\* The comparator of computeZoneFile's sort.
SortKey(rs) == rs.name \o TypeChars(rs.type)

RECURSIVE InsertSorted(_, _)
InsertSorted(sorted, rs) ==
  IF sorted = <<>> THEN <<rs>>
  ELSE IF localeCompare(SortKey(rs), SortKey(Head(sorted))) < 0
    THEN <<rs>> \o sorted
    ELSE <<Head(sorted)>> \o InsertSorted(Tail(sorted), rs)

\* Array.prototype.sort is stable: record sets with equal keys keep the order
\* they have in the input.
RECURSIVE StableSort(_)
StableSort(list) ==
  IF list = <<>> THEN <<>>
  ELSE InsertSorted(StableSort(SubSeq(list, 1, Len(list) - 1)), list[Len(list)])

\* A template literal applied to an object: String(obj).
ObjectToString(o) ==
  <<"[", "o", "b", "j", "e", "c", "t", " ", "O", "b", "j", "e", "c", "t", "]">>

HardCodedSerial == 2026010201
DefaultMxPriority == 10
DefaultSrvPriority == 10
DefaultSrvWeight == 5
DefaultSrvPort == 443

\* a || b: the fallback also replaces 0.
OrElseFalsy(opt, dflt) == IF opt = None \/ opt = Null \/ opt[1] = 0 THEN dflt ELSE opt[1]

\* a ?? b
OrElse(opt, dflt) == IF opt = None \/ opt = Null THEN dflt ELSE opt[1]

SerialLine(zone) == <<"serial", HardCodedSerial>>

NsLine(ns) == <<"@ IN NS", ObjectToString(ns)>>

RecordOwner(rs, zone) ==
  IF rs.name = zone.name THEN <<"@">>
  ELSE StripTrailingDot(ReplaceFirst(rs.name, zone.name, <<>>))

ValueLine(owner, ttl, type, v) ==
  IF type = "MX"
    THEN <<"RR", owner, ttl, "MX", <<OrElse(v.priority, DefaultMxPriority)>>, v.value>>
  ELSE IF type = "SRV"
    THEN <<"RR", owner, ttl, "SRV",
           <<OrElse(v.priority, DefaultSrvPriority), OrElse(v.weight, DefaultSrvWeight),
             OrElse(v.port, DefaultSrvPort)>>, v.value>>
  ELSE IF type = "TXT"
    THEN <<"RR", owner, ttl, "TXT", <<>>,
           IF StartsWith(v.value, <<"\"">>) THEN v.value
           ELSE <<"\"">> \o v.value \o <<"\"">> >>
  ELSE <<"RR", owner, ttl, type, <<>>, v.value>>

RecordLines(rs, zone) ==
  LET owner == RecordOwner(rs, zone)
      ttl == OrElse(rs.ttl, zone.defaultTtl)
  IN [i \in 1..Len(rs.values) |-> ValueLine(owner, ttl, rs.type, rs.values[i])]

RECURSIVE AllRecordLines(_, _)
AllRecordLines(sorted, zone) ==
  IF sorted = <<>> THEN <<>>
  ELSE RecordLines(Head(sorted), zone) \o AllRecordLines(Tail(sorted), zone)

\* The lines computeZoneFile joins with "\n", each line a tagged tuple of its fields.
computeZoneFile(zone, recordsets) ==
  <<  <<"$TTL", zone.defaultTtl>>,
      <<"@ IN SOA", zone.soa.primaryNs, zone.soa.adminEmail, "(">>,
      SerialLine(zone),
      <<"refresh", zone.soa.refresh>>,
      <<"retry", zone.soa.retry>>,
      <<"expire", zone.soa.expire>>,
      <<"minimum", zone.soa.minimum>>,
      <<")">> >>
  \o [i \in 1..Len(zone.nameServers) |-> NsLine(zone.nameServers[i])]
  \o << <<"">> >>
  \o AllRecordLines(StableSort(recordsets), zone)

HeaderLines == 8

\* ------------------------------------------------------------------- state
VARIABLES
  zones,          \* State.zones
  recordSets,     \* State.recordSets
  changes,        \* State.changes
  audit,          \* State.audit
  activeZoneId,   \* State.activeZoneId (NoId when null)
  activeZoneName, \* State.activeZoneName (NoName when null)
  nextUid,        \* the next identifier uid() hands out
  apiZones,       \* the zones the backend holds
  zoneFetches,    \* number of zone-list requests in flight
  recordFetches,  \* zone names of the record-set requests in flight
  modals,         \* the form state of the two RecordSetModal instances
  bulk,           \* the bulk-add page: whether it is shown, and its draft rows
  drawer,         \* the delegation drawer
  authored,       \* history: ids of the record sets written by user actions
  lastOp,         \* history: the last handler that ran and what it saw
  rzone,          \* renderer input: the zone
  rsets,          \* renderer input: the record-set list
  rperm,          \* renderer input: a permutation of rsets
  rout,           \* computeZoneFile(rzone, rsets), <<>> before the first render
  routPerm,       \* computeZoneFile(rzone, rperm), <<>> before the first render
  snippet,        \* computeNamedConfSnippet(rzone), <<>> before it is computed
  fin,            \* arguments of the FQDN helpers
  fout,           \* their results, <<>> before they are computed
  vin,            \* arguments of validateRecordInput
  vout,           \* its result, <<>> before it is computed
  apiSent,        \* the body of the last PUT of record sets, <<>> before the first
  puts            \* the PUT requests of applyPendingChanges, in flight and answered

storeVars == <<zones, recordSets, changes, audit, activeZoneId, activeZoneName>>
netVars == <<apiZones, zoneFetches, recordFetches>>
uiVars == <<modals, bulk, drawer>>
ioVars == <<snippet, fin, fout, vin, vout, apiSent, puts>>
renderVars == <<rzone, rsets, rperm, rout, routPerm, ioVars>>
vars == <<zones, recordSets, changes, audit, activeZoneId, activeZoneName, nextUid,
          apiZones, zoneFetches, recordFetches, modals, bulk, drawer, authored,
          lastOp, rzone, rsets, rperm, rout, routPerm, snippet, fin, fout, vin, vout,
          apiSent, puts>>

NoId == 0
NoName == <<>>

\* ------------------------------------------------------------- conversions
DefaultSoa ==
  [primaryNs |-> <<"n", "s", "1", ".", "e", "x", "a", "m", "p", "l", "e", ".", "c", "o", "m", ".">>,
   adminEmail |-> <<"h", "o", "s", "t", "m", "a", "s", "t", "e", "r", ".", "e", "x", "a", "m", "p", "l", "e", ".", "c", "o", "m", ".">>,
   refresh |-> 3600, retry |-> 600, expire |-> 604800, minimum |-> 300]

\* apiZoneToZone: the role of the API zone is not copied.
apiZoneToZone(apiZone, id) ==
  [id |-> id, name |-> apiZone.name, type |-> apiZone.type, role |-> "undefined",
   defaultTtl |-> 300, allowTransferTo |-> <<>>, notifyTargets |-> <<>>,
   soa |-> DefaultSoa, nameServers |-> <<>>]

apiRecordSetToRecordSet(apiRs, zoneId, id) ==
  [id |-> id, zoneId |-> zoneId, name |-> apiRs.name, type |-> apiRs.type,
   ttl |-> apiRs.ttl, values |-> apiRs.values]

\* ------------------------------------------------------------ the reducer
\* A "record/upsert" that prepends whether or not the id is present.
RecordUpsertPrepend(list, rs) == <<rs>> \o list

\* "record/upsert"
RecordUpsert(list, rs) ==
  IF \E i \in 1..Len(list) : list[i].id = rs.id
    THEN [i \in 1..Len(list) |-> IF list[i].id = rs.id THEN rs ELSE list[i]]
    ELSE <<rs>> \o list

\* "record/delete"
RecordDelete(list, id) == SelectSeq(list, LAMBDA r : r.id # id)

\* addChange: "change/add" with a fresh PENDING change request.
AddChange(list, id, zoneId, summary) ==
  << [id |-> id, zoneId |-> zoneId, status |-> "PENDING", summary |-> summary] >> \o list

\* An "audit/add" that puts the event in the place of the newest one.
LogOverwrite(list, id, zoneId, action, detail) ==
  << [id |-> id, zoneId |-> zoneId, action |-> action, detail |-> detail] >>
    \o (IF list = <<>> THEN <<>> ELSE Tail(list))

\* log: "audit/add" with a fresh audit event.
Log(list, id, zoneId, action, detail) ==
  << [id |-> id, zoneId |-> zoneId, action |-> action, detail |-> detail] >> \o list

\* activeZone: the zone whose id is activeZoneId, or none.
ActiveZoneOf(zs, id) ==
  IF \E i \in 1..Len(zs) : zs[i].id = id
    THEN << zs[CHOOSE i \in 1..Len(zs) : zs[i].id = id /\ \A j \in 1..(i - 1) : zs[j].id # id] >>
    ELSE <<>>

activeZone == ActiveZoneOf(zones, activeZoneId)

zoneRecordSets ==
  IF activeZone = <<>> THEN <<>>
  ELSE SelectSeq(recordSets, LAMBDA r : r.zoneId = activeZone[1].id)


\* ------------------------------------------------ the client at start-up
\* A closed RecordSetModal: the useState initial values.
FreshValue == [value |-> <<>>, priority |-> None, weight |-> None, port |-> None]

ModalInitial ==
  [opened |-> FALSE, edit |-> <<>>, type |-> "A", label |-> <<"@">>, ttl |-> None,
   values |-> <<FreshValue>>]

BulkClosed == [open |-> FALSE, rows |-> <<>>]


\* The drawer's useState initial values.
DrawerInitial ==
  [opened |-> FALSE, label |-> <<"d", "e", "v">>, ns1 |-> <<"n", "s", "1", ".", "d", "e", "v", "n", "s", ".", "e", "x", "a", "m", "p", "l", "e", ".", "n", "e", "t", ".">>,
   ns2 |-> <<"n", "s", "2", ".", "d", "e", "v", "n", "s", ".", "e", "x", "a", "m", "p", "l", "e", ".", "n", "e", "t", ".">>, createChild |-> TRUE]

\* initialState of the store, no request answered yet, every dialog closed.
ClientInitial ==
  /\ zones = <<>>
  /\ recordSets = <<>>
  /\ changes = <<>>
  /\ audit = <<>>
  /\ activeZoneId = NoId
  /\ activeZoneName = NoName
  /\ nextUid = 1
  /\ modals = [m \in {"create", "edit"} |-> ModalInitial]
  /\ bulk = BulkClosed
  /\ drawer = DrawerInitial
  /\ authored = {}
  /\ lastOp = [op |-> "init", errors |-> 0, staged |-> 0]

\* Nothing handed to a pure function yet, nothing sent to the backend.
IoIdle ==
  /\ snippet = <<>>
  /\ fin = <<>>
  /\ fout = <<>>
  /\ vin = <<>>
  /\ vout = <<>>
  /\ apiSent = <<>>
  /\ puts = <<>>

RenderIdle ==
  /\ rzone = <<>>
  /\ rsets = <<>>
  /\ rperm = <<>>
  /\ rout = <<>>
  /\ routPerm = <<>>
  /\ IoIdle

\* ------------------------------------------------- the renderer on its own
ZoneZ == <<"z", ".">>

\* The SOA the backend stores for a zone carries the zone's serial.
StoredSoa(serial) == DefaultSoa @@ [serial |-> serial]

StoredSerials == {2026010201, 2026010202}

NameServerPool ==
  {[hostname |-> <<"n", ".">>, ipv4 |-> <<"1", ".", "1", ".", "1", ".", "1">>], [hostname |-> <<"m", ".">>, ipv4 |-> <<>>]}

RenderZone(serial, nameServers) ==
  [id |-> 1, name |-> ZoneZ, type |-> "forward", role |-> "primary",
   defaultTtl |-> 300, allowTransferTo |-> <<>>, notifyTargets |-> <<>>,
   soa |-> StoredSoa(serial), nameServers |-> nameServers]

PlainValue(s) == [value |-> s, priority |-> None, weight |-> None, port |-> None]

RenderRecord(id, name, type, ttl, values) ==
  [id |-> id, zoneId |-> 1, name |-> name, type |-> type, ttl |-> ttl, values |-> values]

\* Record sets of zone "z.": the apex, a subdomain entered twice with the same
\* type, a name that holds the zone name before its end, an MX without a
\* priority and one with priority 0, and SRV values that carry only some of
\* priority, weight and port.
RenderPool ==
  { RenderRecord(11, <<"z", ".">>, "A", None, <<PlainValue(<<"1", ".", "1", ".", "1", ".", "1">>)>>),
    RenderRecord(12, <<"w", ".", "z", ".">>, "A", Some(60), <<PlainValue(<<"2", ".", "2", ".", "2", ".", "2">>)>>),
    RenderRecord(13, <<"w", ".", "z", ".">>, "A", None, <<PlainValue(<<"3", ".", "3", ".", "3", ".", "3">>)>>),
    RenderRecord(14, <<"z", ".", "w", ".", "z", ".">>, "CNAME", None, <<PlainValue(<<"t", ".">>)>>),
    RenderRecord(15, <<"z", ".">>, "MX", None, <<PlainValue(<<"m", ".">>)>>),
    RenderRecord(16, <<"z", ".">>, "MX", None,
                 <<[value |-> <<"n", ".">>, priority |-> Some(0), weight |-> None, port |-> None]>>),
    RenderRecord(17, <<"s", ".", "z", ".">>, "SRV", None,
                 <<[value |-> <<"t", ".">>, priority |-> None, weight |-> Some(0), port |-> None]>>),
    RenderRecord(18, <<"s", ".", "z", ".">>, "SRV", Some(0),
                 <<[value |-> <<"s", ".">>, priority |-> Some(1), weight |-> None, port |-> Some(80)]>>) }

SeqsUpTo(S, n) == UNION {[1..k -> S] : k \in 0..n}

IsInjective(s) == \A i, j \in 1..Len(s) : i # j => s[i] # s[j]

InitRender ==
  /\ ClientInitial
  /\ apiZones = <<>>
  /\ zoneFetches = 0
  /\ recordFetches = <<>>
  /\ \E serial \in StoredSerials, ns \in SeqsUpTo(NameServerPool, MaxNameServers) :
       rzone = RenderZone(serial, ns)
  /\ rsets \in {s \in SeqsUpTo(RenderPool, MaxRenderSets) : IsInjective(s)}
  /\ rperm = rsets
  /\ rout = <<>>
  /\ routPerm = <<>>
  /\ IoIdle

\* The caller hands the same record sets over in another order.
Permute ==
  /\ \E f \in {g \in [1..Len(rsets) -> 1..Len(rsets)] : IsInjective(g)} :
       LET p == [i \in 1..Len(rsets) |-> rsets[f[i]]]
       IN /\ p # rperm
          /\ rperm' = p
  /\ rout' = <<>>
  /\ routPerm' = <<>>
  /\ UNCHANGED <<rzone, rsets, ioVars>>
  /\ UNCHANGED <<storeVars, netVars, uiVars, nextUid, authored, lastOp>>

\* ExportsPage: localZoneFile = computeZoneFile(activeZone, zoneRecordSets),
\* once for each of the two orders.
RenderZoneFile ==
  /\ rout = <<>>
  /\ rout' = computeZoneFile(rzone, rsets)
  /\ routPerm' = computeZoneFile(rzone, rperm)
  /\ UNCHANGED <<rzone, rsets, rperm, ioVars>>
  /\ UNCHANGED <<storeVars, netVars, uiVars, nextUid, authored, lastOp>>

NextRender == Permute \/ RenderZoneFile

SpecRender == InitRender /\ [][NextRender]_vars

\* C7: computeZoneFile is deterministic and independent of the order of the
\* record-set list: the text rendered from a permutation of the list equals the
\* text rendered from the list, also when two record sets share name and type.
C7_OrderIndependent == rout # <<>> => routPerm = rout

\* C8: the serial line of the SOA block carries the serial stored for the zone.
C8_SerialIsStored == rout # <<>> => rout[3] = <<"serial", rzone.soa.serial>>

\* C9: after the SOA block there is one "@ IN NS <hostname>" line per entry of
\* zone.nameServers, in list order, followed by the blank line.
C9_NsLinePerNameServer ==
  rout # <<>> =>
    /\ \A i \in 1..Len(rzone.nameServers) :
         rout[HeaderLines + i] = <<"@ IN NS", rzone.nameServers[i].hostname>>
    /\ rout[HeaderLines + Len(rzone.nameServers) + 1] = <<"">>

IsProperSubdomain(name, zoneName) ==
  /\ Len(name) > Len(zoneName) + 1
  /\ SubSeq(name, Len(name) - Len(zoneName), Len(name)) = <<".">> \o zoneName

\* The lines computeZoneFile rendered for a record set, recognised by its value.
LinesOf(out, rs) ==
  {j \in 1..Len(out) : out[j][1] = "RR" /\ out[j][4] = rs.type
                        /\ out[j][6] = rs.values[1].value}

\* C10: the owner rendered for a record set is "@" at the zone apex, and for a
\* proper subdomain of the zone it is the label with owner + "." + zone.name
\* equal to the record set's name.
C10_OwnerIsRelativeLabel ==
  rout # <<>> =>
    \A i \in 1..Len(rsets) :
      /\ LinesOf(rout, rsets[i]) # {}
      /\ \A j \in LinesOf(rout, rsets[i]) :
           /\ rsets[i].name = rzone.name => rout[j][2] = <<"@">>
           /\ IsProperSubdomain(rsets[i].name, rzone.name)
                => rout[j][2] \o <<".">> \o rzone.name = rsets[i].name


\* ------------------------------------------------------------ the backend
\* What GET /zones answers before any zone is created from the console.
BackendZones == << [name |-> ZoneZ, type |-> "forward", role |-> "primary"] >>

\* What GET /zones/{name}/recordsets answers.
BackendRecordSets(zoneName) ==
  IF zoneName = ZoneZ
    THEN << [name |-> <<"w", ".", "z", ".">>, type |-> "A", ttl |-> Some(300),
             values |-> <<PlainValue(<<"9", ".", "9", ".", "9", ".", "9">>)>>] >>
    ELSE <<>>

\* The backend answers with the record sets last PUT for the zone, if any.
BackendAnswer(zoneName) ==
  IF apiSent # <<>> /\ apiSent.zone = zoneName THEN apiSent.recordsets
  ELSE BackendRecordSets(zoneName)

\* --------------------------------------------- what the user can type/pick
DialogTypes == {"A", "CNAME"}
Labels == {<<"@">>, <<"o", ".">>}
TtlInputs == {None, Some(0), Some(60)}
ValueStrings == {<<>>, <<"1", ".", "1", ".", "1", ".", "1">>}

\* ------------------------------------------------ drafts (modal and bulk)
\* values.map(v => ({...v, value: normalised value}))
NormalizeValues(type, values) ==
  [i \in 1..Len(values) |->
     [values[i] EXCEPT !.value =
        IF type \in NeedsFqdnTypes THEN normalizeFqdn(Trim(@)) ELSE Trim(@)]]

\* fqdn = fqdnJoin(label || "@", activeZone.name)
DraftFqdn(label, zone) == fqdnJoin(IF label = <<>> THEN <<"@">> ELSE label, zone.name)

\* errors = validateRecordInput({type, name: fqdn, values: normalizedValues})
DraftErrors(type, label, values, zone) ==
  validateRecordInput(type, DraftFqdn(label, zone), NormalizeValues(type, values))

\* A save that lets every draft through.
NeverRejects(errors) == FALSE

\* if (errors.length) { ...; return; }
SaveRejects(errors) == Len(errors) > 0

\* A save that stores the TTL the record set inherits.
BakedRecordSet(id, type, label, ttl, values, zone) ==
  [id |-> id, zoneId |-> zone.id, name |-> DraftFqdn(label, zone), type |-> type,
   ttl |-> Some(OrElse(ttl, zone.defaultTtl)), values |-> NormalizeValues(type, values)]

\* The record set save builds from an accepted draft; the TTL field is "" when
\* left blank (None) and a number otherwise: ttl === "" ? undefined : Number(ttl).
DraftRecordSet(id, type, label, ttl, values, zone) ==
  [id |-> id, zoneId |-> zone.id, name |-> DraftFqdn(label, zone), type |-> type,
   ttl |-> ttl, values |-> NormalizeValues(type, values)]

\* ---------------------------------------------------------- RecordSetModal
ModalIds == {"create", "edit"}

\* The effect on [opened, editRecordSet, activeZone]: fill the form.
InitEffect(m, az) ==
  IF ~m.opened \/ az = <<>> THEN m
  ELSE IF m.edit = <<>>
    THEN [m EXCEPT !.type = "A", !.label = <<"@">>, !.ttl = None, !.values = <<FreshValue>>]
  ELSE LET e == m.edit[1]
           rel == IF e.name = az[1].name THEN <<"@">>
                  ELSE StripTrailingDot(ReplaceFirst(e.name, az[1].name, <<>>))
       IN [m EXCEPT !.type = e.type,
                    !.label = IF rel = <<>> THEN <<"@">> ELSE rel,
                    !.ttl = e.ttl,
                    !.values = e.values]

\* A dialog without the effect on [type].
NoTruncation(prevType, m) == m

\* The effect on [type]: a form that has just become CNAME keeps its first value.
TruncationEffect(prevType, m) ==
  IF m.type # prevType /\ m.type = "CNAME" /\ Len(m.values) > 1
    THEN [m EXCEPT !.values = <<m.values[1]>>]
    ELSE m

\* Both effects, in the order of the renders they run after.
RunEffects(prev, m, az) == TruncationEffect(prev.type, InitEffect(m, az))

\* A render with a new activeZone object re-runs the init effect of each
\* mounted dialog.
ModalsAfterZoneChange(ms, az) == [k \in ModalIds |-> RunEffects(ms[k], ms[k], az)]

OverlayOpen == modals["create"].opened \/ modals["edit"].opened \/ drawer.opened

Staged == Len(changes)

Other == [op |-> "other", errors |-> 0, staged |-> 0]


\* -------------------------------------------------------- network answers
\* GET /zones is answered: setZones(data), then the sync effect dispatches
\* "zones/set" with freshly converted zones and, when no zone is selected,
\* "zone/setActive" for the first one; a changed activeZoneName starts a
\* record-set request; a changed activeZone re-runs the dialogs' init effect.
ZonesFetched ==
  /\ zoneFetches > 0
  /\ Len(apiZones) > 0
  /\ LET zs == [i \in 1..Len(apiZones) |-> apiZoneToZone(apiZones[i], nextUid + i - 1)]
         newId == IF activeZoneId = NoId THEN zs[1].id ELSE activeZoneId
         newName == IF activeZoneId = NoId THEN zs[1].name ELSE activeZoneName
     IN /\ zones' = zs
        /\ activeZoneId' = newId
        /\ activeZoneName' = newName
        /\ recordFetches' = IF newName # activeZoneName /\ newName # NoName
                              THEN Append(recordFetches, newName) ELSE recordFetches
        /\ modals' = ModalsAfterZoneChange(modals, ActiveZoneOf(zs, newId))
  /\ nextUid' = nextUid + Len(apiZones)
  /\ zoneFetches' = zoneFetches - 1
  /\ lastOp' = Other
  /\ UNCHANGED <<recordSets, changes, audit, apiZones, bulk, drawer, authored, renderVars>>

\* GET /zones/{name}/recordsets is answered: setData(result), then the sync
\* effect dispatches "recordsets/set" with the items converted for the zone
\* that is active now.
RecordSetsFetched ==
  /\ \E k \in 1..Len(recordFetches) :
       LET items == BackendAnswer(recordFetches[k])
       IN /\ recordFetches' = SubSeq(recordFetches, 1, k - 1)
                                \o SubSeq(recordFetches, k + 1, Len(recordFetches))
          /\ IF activeZoneId # NoId
               THEN /\ recordSets' = [i \in 1..Len(items) |->
                         apiRecordSetToRecordSet(items[i], activeZoneId, nextUid + i - 1)]
                    /\ nextUid' = nextUid + Len(items)
                    /\ authored' = {}
               ELSE UNCHANGED <<recordSets, nextUid, authored>>
  /\ lastOp' = Other
  /\ UNCHANGED <<zones, changes, audit, activeZoneId, activeZoneName, apiZones,
                 zoneFetches, uiVars, renderVars>>

\* ------------------------------------------------------ the store's verbs
\* upsertRecordSet(rs, summary, details), with ids for the change and the event.
UpsertRecordSet(rs, verb, changeId, eventId) ==
  /\ recordSets' = RecordUpsert(recordSets, rs)
  /\ changes' = AddChange(changes, changeId, rs.zoneId, <<verb, rs.type, rs.name>>)
  /\ audit' = Log(audit, eventId, rs.zoneId, "Upserted record", <<rs.type, rs.name>>)
  /\ authored' = authored \cup {rs.id}

\* ---------------------------------------------------------- dialog actions
\* activeZone?.role === "secondary"
ActiveIsSecondary == activeZone # <<>> /\ activeZone[1].role = "secondary"

CanEditRecords ==
  /\ activeZone # <<>>
  /\ ~ActiveIsSecondary
  /\ ~bulk.open
  /\ ~OverlayOpen

\* ConsoleShell: the "Create record" button, disabled for a secondary zone.
OpenCreate ==
  /\ ~OverlayOpen
  /\ ~bulk.open
  /\ Staged < MaxStaged
  /\ ~ActiveIsSecondary
  /\ modals' = [modals EXCEPT !["create"] =
                  RunEffects(@, [@ EXCEPT !.opened = TRUE], activeZone)]
  /\ lastOp' = Other
  /\ UNCHANGED <<storeVars, netVars, nextUid, bulk, drawer, authored, renderVars>>

\* ConsoleShell: the keydown handler for Ctrl/Cmd+R.
OpenCreateShortcut ==
  /\ ~modals["create"].opened
  /\ ~modals["edit"].opened
  /\ ~bulk.open
  /\ Staged < MaxStaged
  /\ modals' = [modals EXCEPT !["create"] =
                  RunEffects(@, [@ EXCEPT !.opened = TRUE], activeZone)]
  /\ lastOp' = Other
  /\ UNCHANGED <<storeVars, netVars, nextUid, bulk, drawer, authored, renderVars>>

\* RecordSetTable: setEdit(rs) on a row of the table, while fewer than limit
\* changes are staged.
OpenEditWithin(limit) ==
  /\ CanEditRecords
  /\ Staged < limit
  /\ \E i \in 1..Len(zoneRecordSets) :
       modals' = [modals EXCEPT !["edit"] =
                    RunEffects(@, [@ EXCEPT !.opened = TRUE, !.edit = <<zoneRecordSets[i]>>],
                               activeZone)]
  /\ lastOp' = Other
  /\ UNCHANGED <<storeVars, netVars, nextUid, bulk, drawer, authored, renderVars>>

OpenEdit == OpenEditWithin(MaxStaged)

FormUnchanged == UNCHANGED <<storeVars, netVars, nextUid, bulk, drawer, authored, renderVars>>

\* Select onChange: setType, then the effect on [type].
SetType(m) ==
  /\ modals[m].opened
  /\ \E t \in DialogTypes :
       /\ t # modals[m].type
       /\ modals' = [modals EXCEPT ![m] = TruncationEffect(@.type, [@ EXCEPT !.type = t])]
  /\ lastOp' = Other
  /\ FormUnchanged

\* TextInput onChange: setLabel with a label of the pool.
SetLabelFrom(m, pool) ==
  /\ modals[m].opened
  /\ \E l \in pool : modals' = [modals EXCEPT ![m].label = l]
  /\ lastOp' = Other
  /\ FormUnchanged

SetLabel(m) == SetLabelFrom(m, Labels)

SetTtl(m) ==
  /\ modals[m].opened
  /\ \E t \in TtlInputs : modals' = [modals EXCEPT ![m].ttl = t]
  /\ lastOp' = Other
  /\ FormUnchanged

SetValue(m) ==
  /\ modals[m].opened
  /\ \E i \in 1..Len(modals[m].values), s \in ValueStrings :
       modals' = [modals EXCEPT ![m].values[i].value = s]
  /\ lastOp' = Other
  /\ FormUnchanged

\* "Add value", not rendered for CNAME.
AddValue(m) ==
  /\ modals[m].opened
  /\ modals[m].type # "CNAME"
  /\ Len(modals[m].values) < MaxValues
  /\ modals' = [modals EXCEPT ![m].values = Append(@, FreshValue)]
  /\ lastOp' = Other
  /\ FormUnchanged

\* "Remove", rendered when the type is not CNAME and there are several values.
RemoveValue(m) ==
  /\ modals[m].opened
  /\ modals[m].type # "CNAME"
  /\ Len(modals[m].values) > 1
  /\ \E i \in 1..Len(modals[m].values) :
       modals' = [modals EXCEPT ![m].values =
                    SubSeq(@, 1, i - 1) \o SubSeq(@, i + 1, Len(@))]
  /\ lastOp' = Other
  /\ FormUnchanged

\* onClose.  A closed dialog keeps its state, but the init effect overwrites
\* label, ttl and values whenever it is opened on a zone, so of the closed form
\* only the type, which the effect on [type] compares, is carried over; the
\* create dialog is re-initialised to type "A" with one value, on which that
\* effect does nothing, so its type is not carried over either.
Closed(k, m) ==
  IF k = "create" THEN ModalInitial ELSE [ModalInitial EXCEPT !.type = m.type]

CancelModal(m) ==
  /\ modals[m].opened
  /\ modals' = [modals EXCEPT ![m] = Closed(m, @)]
  /\ lastOp' = Other
  /\ FormUnchanged

\* RecordSetModal.save
SaveModal(m) ==
  /\ modals[m].opened
  /\ LET f == modals[m] IN
     IF activeZone = <<>>
       THEN /\ lastOp' = [op |-> "modalSave", errors |-> 0, staged |-> 0]
            /\ UNCHANGED <<recordSets, changes, audit, authored, nextUid, modals>>
       ELSE LET errors == DraftErrors(f.type, f.label, f.values, activeZone[1])
                isEdit == f.edit # <<>>
                rsId == IF isEdit THEN f.edit[1].id ELSE nextUid
                base == IF isEdit THEN nextUid ELSE nextUid + 1
                rs == DraftRecordSet(rsId, f.type, f.label, f.ttl, f.values, activeZone[1])
            IN IF SaveRejects(errors)
                 THEN /\ lastOp' = [op |-> "modalSave", errors |-> Len(errors), staged |-> 0]
                      /\ UNCHANGED <<recordSets, changes, audit, authored, nextUid, modals>>
                 ELSE /\ UpsertRecordSet(rs, IF isEdit THEN "Update" ELSE "Create",
                                         base, base + 1)
                      /\ nextUid' = base + 2
                      /\ modals' = [modals EXCEPT ![m] = Closed(m, @)]
                      /\ lastOp' = [op |-> "modalSave", errors |-> Len(errors), staged |-> 1]
  /\ UNCHANGED <<zones, activeZoneId, activeZoneName, netVars, bulk, drawer, renderVars>>

\* RecordSetTable: the delete icon of a row; deleteRecordSet(rs.id, ...).
DeleteRecordSet ==
  /\ CanEditRecords
  /\ Staged < MaxStaged
  /\ \E i \in 1..Len(zoneRecordSets) :
       LET rs == zoneRecordSets[i]
       IN /\ recordSets' = RecordDelete(recordSets, rs.id)
          /\ changes' = AddChange(changes, nextUid, rs.zoneId, <<"Delete", rs.type, rs.name>>)
          /\ audit' = Log(audit, nextUid + 1, rs.zoneId, "Deleted record", <<rs.type, rs.name>>)
          /\ authored' = authored \ {rs.id}
  /\ nextUid' = nextUid + 2
  /\ lastOp' = Other
  /\ UNCHANGED <<zones, activeZoneId, activeZoneName, netVars, uiVars, renderVars>>


\* ------------------------------------------------------ BulkAddRecordsPage
\* The draft row addRecordSet appends, and the page starts with.
FreshRow == [type |-> "A", label |-> <<"@">>, ttl |-> None, values |-> <<FreshValue>>]

BulkUnchanged == UNCHANGED <<storeVars, netVars, nextUid, modals, drawer, authored, renderVars>>

\* RecordsPage: setShowBulkAdd(true); the page mounts with one fresh row, and
\* the record table, with its edit dialog, is unmounted.
OpenBulk ==
  /\ CanEditRecords
  /\ Staged = 0
  /\ bulk' = [open |-> TRUE, rows |-> <<FreshRow>>]
  /\ modals' = [modals EXCEPT !["edit"] = ModalInitial]
  /\ lastOp' = Other
  /\ UNCHANGED <<storeVars, netVars, nextUid, drawer, authored, renderVars>>

addRecordSet ==
  /\ bulk.open
  /\ Len(bulk.rows) < MaxRows
  /\ bulk' = [bulk EXCEPT !.rows = Append(@, FreshRow)]
  /\ lastOp' = Other
  /\ BulkUnchanged

\* The trash icon of a row, rendered when there are several rows.
removeRecordSet ==
  /\ bulk.open
  /\ Len(bulk.rows) > 1
  /\ \E i \in 1..Len(bulk.rows) :
       bulk' = [bulk EXCEPT !.rows = SubSeq(@, 1, i - 1) \o SubSeq(@, i + 1, Len(@))]
  /\ lastOp' = Other
  /\ BulkUnchanged

\* Select onChange of a row: the new type, and for CNAME the first value only.
BulkSetType ==
  /\ bulk.open
  /\ \E i \in 1..Len(bulk.rows), t \in DialogTypes :
       /\ t # bulk.rows[i].type
       /\ bulk' = [bulk EXCEPT !.rows[i] =
                     [@ EXCEPT !.type = t,
                               !.values = IF t = "CNAME" /\ Len(@) > 1 THEN <<@[1]>> ELSE @]]
  /\ lastOp' = Other
  /\ BulkUnchanged

BulkSetLabel ==
  /\ bulk.open
  /\ \E i \in 1..Len(bulk.rows), l \in Labels : bulk' = [bulk EXCEPT !.rows[i].label = l]
  /\ lastOp' = Other
  /\ BulkUnchanged

updateValue ==
  /\ bulk.open
  /\ \E i \in 1..Len(bulk.rows) :
       \E j \in 1..Len(bulk.rows[i].values), s \in ValueStrings :
         bulk' = [bulk EXCEPT !.rows[i].values[j].value = s]
  /\ lastOp' = Other
  /\ BulkUnchanged

\* "Add value" of a row, not rendered for CNAME.
addValue ==
  /\ bulk.open
  /\ \E i \in 1..Len(bulk.rows) :
       /\ bulk.rows[i].type # "CNAME"
       /\ Len(bulk.rows[i].values) < MaxValues
       /\ bulk' = [bulk EXCEPT !.rows[i].values = Append(@, FreshValue)]
  /\ lastOp' = Other
  /\ BulkUnchanged

\* The remove icon of a value, rendered when the row is not CNAME and has
\* several values.
removeValue ==
  /\ bulk.open
  /\ \E i \in 1..Len(bulk.rows) :
       /\ bulk.rows[i].type # "CNAME"
       /\ Len(bulk.rows[i].values) > 1
       /\ \E j \in 1..Len(bulk.rows[i].values) :
            bulk' = [bulk EXCEPT !.rows[i].values =
                       SubSeq(@, 1, j - 1) \o SubSeq(@, j + 1, Len(@))]
  /\ lastOp' = Other
  /\ BulkUnchanged

BulkCancel ==
  /\ bulk.open
  /\ bulk' = BulkClosed
  /\ lastOp' = Other
  /\ BulkUnchanged

\* validationErrors: one entry per row whose draft the validator rejects.
validationErrors(rows, az) ==
  IF az = <<>> THEN <<>>
  ELSE SelectSeq([i \in 1..Len(rows) |-> i],
                 LAMBDA i : Len(DraftErrors(rows[i].type, rows[i].label,
                                            rows[i].values, az[1])) > 0)

\* A bulk save that lets every batch through.
BulkNeverRejects(errs) == FALSE

\* if (validationErrors.length > 0) { ...; return; }
BulkRejects(errs) == Len(errs) > 0

\* recordsToAdd.forEach(rs => upsertRecordSet(rs, ...)): the store after the
\* rows from k on are staged, row r with ids uid + 3 * (r - 1) ...
RECURSIVE StageRows(_, _, _, _, _)
StageRows(rows, k, zone, uid, st) ==
  IF k > Len(rows) THEN st
  ELSE LET rs == DraftRecordSet(uid, rows[k].type, rows[k].label, rows[k].ttl,
                                rows[k].values, zone)
       IN StageRows(rows, k + 1, zone, uid + 3,
            [recordSets |-> RecordUpsert(st.recordSets, rs),
             changes |-> AddChange(st.changes, uid + 1, rs.zoneId, <<"Add", rs.type, rs.name>>),
             audit |-> Log(st.audit, uid + 2, rs.zoneId, "Upserted record", <<rs.type, rs.name>>),
             authored |-> st.authored \cup {rs.id}])

\* BulkAddRecordsPage.save
BulkSave ==
  /\ bulk.open
  /\ LET errs == validationErrors(bulk.rows, activeZone) IN
     IF activeZone = <<>> \/ BulkRejects(errs)
       THEN /\ lastOp' = [op |-> "bulkSave", errors |-> Len(errs), staged |-> 0]
            /\ UNCHANGED <<recordSets, changes, audit, authored, nextUid, bulk>>
       ELSE LET st == StageRows(bulk.rows, 1, activeZone[1], nextUid,
                                [recordSets |-> recordSets, changes |-> changes,
                                 audit |-> audit, authored |-> authored])
            IN /\ recordSets' = st.recordSets
               /\ changes' = st.changes
               /\ audit' = st.audit
               /\ authored' = st.authored
               /\ nextUid' = nextUid + 3 * Len(bulk.rows)
               /\ bulk' = BulkClosed
               /\ lastOp' = [op |-> "bulkSave", errors |-> 0, staged |-> Len(bulk.rows)]
  /\ UNCHANGED <<zones, activeZoneId, activeZoneName, netVars, modals, drawer, renderVars>>

\* ------------------------------------------------ the record forms at work
Init ==
  /\ ClientInitial
  /\ apiZones = BackendZones
  /\ zoneFetches = 1
  /\ recordFetches = <<>>
  /\ RenderIdle

Next ==
  \/ ZonesFetched
  \/ RecordSetsFetched
  \/ OpenCreate
  \/ OpenCreateShortcut
  \/ OpenEdit
  \/ \E m \in ModalIds : SetType(m)
  \/ \E m \in ModalIds : SetLabel(m)
  \/ \E m \in ModalIds : SetTtl(m)
  \/ \E m \in ModalIds : SetValue(m)
  \/ \E m \in ModalIds : AddValue(m)
  \/ \E m \in ModalIds : RemoveValue(m)
  \/ \E m \in ModalIds : CancelModal(m)
  \/ \E m \in ModalIds : SaveModal(m)
  \/ DeleteRecordSet
  \/ OpenBulk
  \/ addRecordSet
  \/ removeRecordSet
  \/ BulkSetType
  \/ BulkSetLabel
  \/ updateValue
  \/ addValue
  \/ removeValue
  \/ BulkCancel
  \/ BulkSave

Spec == Init /\ [][Next]_vars


\* ------------------------------------------------------------ zones at work
ZoneY == <<"y", ".">>

\* CreateZoneModal.submit for a forward zone, once POST /zones has answered:
\* the backend holds the zone, the store gets it through createZone(z), which
\* makes it active, logs it and refetches the zones; submit refetches again.
CreateZone ==
  /\ ~OverlayOpen
  /\ Len(apiZones) < Len(BackendZones) + MaxCreatedZones
  /\ nextUid < MaxUid
  /\ \A i \in 1..Len(apiZones) : apiZones[i].name # ZoneY
  /\ \E role \in {"primary", "secondary"} :
       LET fqdn == normalizeFqdn(<<"y">>)
           ns == IF role = "primary"
                   THEN << [hostname |-> <<"n", ".">>, ipv4 |-> <<"1", ".", "1", ".", "1", ".", "1">>] >> ELSE <<>>
           z == [id |-> nextUid, name |-> fqdn, type |-> "forward", role |-> role,
                 defaultTtl |-> 300, allowTransferTo |-> <<>>, notifyTargets |-> <<>>,
                 soa |-> [primaryNs |-> IF ns = <<>> THEN DefaultSoa.primaryNs
                                        ELSE ns[1].hostname,
                          adminEmail |-> <<"h", "o", "s", "t", "m", "a", "s", "t", "e", "r", ".">> \o fqdn,
                          refresh |-> 3600, retry |-> 600, expire |-> 1209600,
                          minimum |-> 300],
                 nameServers |-> ns]
       IN /\ apiZones' = Append(apiZones, [name |-> fqdn, type |-> "forward", role |-> role])
          /\ zones' = <<z>> \o zones
          /\ activeZoneId' = z.id
          /\ activeZoneName' = z.name
          /\ audit' = Log(audit, nextUid + 1, z.id, "Created zone", <<z.type, z.name>>)
          /\ recordFetches' = IF z.name # activeZoneName
                                THEN Append(recordFetches, z.name) ELSE recordFetches
          /\ modals' = ModalsAfterZoneChange(modals, <<z>>)
  /\ nextUid' = nextUid + 2
  /\ zoneFetches' = zoneFetches + 2
  /\ lastOp' = Other
  /\ UNCHANGED <<recordSets, changes, bulk, drawer, authored, renderVars>>

\* ZonesSidebar: setActiveZone(z.id, z.name) on a zone of the list.
SetActiveZone ==
  /\ ~OverlayOpen
  /\ nextUid < MaxUid
  /\ Len(recordFetches) < MaxPending
  /\ \E i \in 1..Len(zones) :
       /\ zones[i].id # activeZoneId
       /\ activeZoneId' = zones[i].id
       /\ activeZoneName' = zones[i].name
       /\ recordFetches' = IF zones[i].name # activeZoneName
                             THEN Append(recordFetches, zones[i].name) ELSE recordFetches
       /\ modals' = ModalsAfterZoneChange(modals, <<zones[i]>>)
  /\ lastOp' = Other
  /\ UNCHANGED <<zones, recordSets, changes, audit, nextUid, apiZones, zoneFetches,
                 bulk, drawer, authored, renderVars>>

\* -------------------------------------------------------- DelegationDrawer
DrawerLabels == {<<"d", "e", "v">>, <<>>}
NsInputs == {<<"n", "s", "1", ".", "d", "e", "v", "n", "s", ".", "e", "x", "a", "m", "p", "l", "e", ".", "n", "e", "t", ".">>, <<>>}

DrawerUnchanged ==
  UNCHANGED <<storeVars, netVars, nextUid, modals, bulk, authored, renderVars>>

\* The "Delegate subdomain" button, not rendered for a secondary zone.
OpenDrawer ==
  /\ ~OverlayOpen
  /\ ~ActiveIsSecondary
  /\ Staged < MaxStaged
  /\ drawer' = [drawer EXCEPT !.opened = TRUE]
  /\ lastOp' = Other
  /\ DrawerUnchanged

DrawerSetLabel ==
  /\ drawer.opened
  /\ \E l \in DrawerLabels : l # drawer.label /\ drawer' = [drawer EXCEPT !.label = l]
  /\ lastOp' = Other
  /\ DrawerUnchanged

DrawerSetNs ==
  /\ drawer.opened
  /\ \E s \in NsInputs :
       \/ s # drawer.ns1 /\ drawer' = [drawer EXCEPT !.ns1 = s]
       \/ s # drawer.ns2 /\ drawer' = [drawer EXCEPT !.ns2 = s]
  /\ lastOp' = Other
  /\ DrawerUnchanged

DrawerSetCreateChild ==
  /\ drawer.opened
  /\ drawer' = [drawer EXCEPT !.createChild = ~@]
  /\ lastOp' = Other
  /\ DrawerUnchanged

CloseDrawer ==
  /\ drawer.opened
  /\ drawer' = [drawer EXCEPT !.opened = FALSE]
  /\ lastOp' = Other
  /\ DrawerUnchanged

\* [normalizeFqdn(ns1), normalizeFqdn(ns2)].filter(Boolean)
DelegationTargets(ns1, ns2) ==
  SelectSeq(<<normalizeFqdn(ns1), normalizeFqdn(ns2)>>, LAMBDA t : t # <<>>)

\* DelegationDrawer.submit
DrawerSubmit ==
  /\ drawer.opened
  /\ IF activeZone = <<>> \/ Trim(drawer.label) = <<>>
       THEN /\ lastOp' = [op |-> "delegate", errors |-> 1, staged |-> 0]
            /\ UNCHANGED <<zones, recordSets, changes, audit, activeZoneId, activeZoneName,
                           nextUid, zoneFetches, recordFetches, modals, drawer, authored>>
       ELSE LET az == activeZone[1]
                targets == DelegationTargets(drawer.ns1, drawer.ns2)
                childFqdn == fqdnJoin(drawer.label, az.name)
                rs == [id |-> nextUid, zoneId |-> az.id, name |-> childFqdn, type |-> "NS",
                       ttl |-> Some(300),
                       values |-> [i \in 1..Len(targets) |-> PlainValue(targets[i])]]
                z == [id |-> nextUid + 3, name |-> childFqdn, type |-> "forward",
                      role |-> "undefined", defaultTtl |-> 300, allowTransferTo |-> <<>>,
                      notifyTargets |-> <<>>,
                      soa |-> [primaryNs |-> IF targets = <<>> THEN <<>> ELSE targets[1],
                               adminEmail |-> <<"h", "o", "s", "t", "m", "a", "s", "t", "e", "r", ".">> \o childFqdn,
                               refresh |-> 3600, retry |-> 600, expire |-> 1209600,
                               minimum |-> 300],
                      nameServers |-> [i \in 1..Len(targets) |->
                                         [hostname |-> targets[i], ipv4 |-> <<>>]]]
            IN /\ recordSets' = RecordUpsert(recordSets, rs)
               /\ changes' = AddChange(changes, nextUid + 1, az.id, <<"Delegate", "NS", childFqdn>>)
               /\ authored' = authored \cup {rs.id}
               /\ drawer' = [drawer EXCEPT !.opened = FALSE]
               /\ lastOp' = [op |-> "delegate", errors |-> 0, staged |-> 1]
               /\ IF drawer.createChild
                    THEN /\ zones' = <<z>> \o zones
                         /\ activeZoneId' = z.id
                         /\ activeZoneName' = z.name
                         /\ audit' = Log(Log(audit, nextUid + 2, az.id, "Upserted record",
                                             <<"NS", childFqdn>>),
                                         nextUid + 4, z.id, "Created zone", <<z.type, z.name>>)
                         /\ nextUid' = nextUid + 5
                         /\ zoneFetches' = zoneFetches + 1
                         /\ recordFetches' = IF z.name # activeZoneName
                                               THEN Append(recordFetches, z.name)
                                               ELSE recordFetches
                         /\ modals' = ModalsAfterZoneChange(modals, <<z>>)
                    ELSE /\ audit' = Log(audit, nextUid + 2, az.id, "Upserted record",
                                         <<"NS", childFqdn>>)
                         /\ nextUid' = nextUid + 3
                         /\ UNCHANGED <<zones, activeZoneId, activeZoneName, zoneFetches,
                                        recordFetches, modals>>
  /\ UNCHANGED <<apiZones, bulk, renderVars>>

InitConsole ==
  /\ ClientInitial
  /\ apiZones = BackendZones
  /\ zoneFetches = 1
  /\ recordFetches = <<>>
  /\ RenderIdle

NextConsole ==
  \/ ZonesFetched
  \/ RecordSetsFetched
  \/ CreateZone
  \/ SetActiveZone
  \/ OpenCreate
  \/ OpenCreateShortcut
  \/ SetValue("create")
  \/ CancelModal("create")
  \/ SaveModal("create")

\* Zones are created and selected while the create dialog is in use.
SpecConsole == InitConsole /\ [][NextConsole]_vars

NextDelegation ==
  \/ ZonesFetched
  \/ RecordSetsFetched
  \/ OpenDrawer
  \/ DrawerSetLabel
  \/ DrawerSetNs
  \/ DrawerSetCreateChild
  \/ CloseDrawer
  \/ DrawerSubmit

\* Subdomains are delegated from the drawer.
SpecDelegation == InitConsole /\ [][NextDelegation]_vars


\* ------------------------------------------------------------- properties
\* The draft a save of dialog m validates.
ModalDraftErrors(m) ==
  DraftErrors(modals[m].type, modals[m].label, modals[m].values, activeZone[1])

RowErrors(row) == DraftErrors(row.type, row.label, row.values, activeZone[1])

StoreUnchanged == UNCHANGED <<recordSets, changes, audit>>

\* C1: when the create/edit dialog is saved and validateRecordInput returns a
\* non-empty list for the draft, the store's recordSets, changes and audit are
\* exactly what they were before the save.
C1_RejectedSaveChangesNothing ==
  [][(/\ lastOp'.op = "modalSave"
      /\ \E m \in ModalIds :
           /\ modals[m].opened
           /\ activeZone # <<>>
           /\ ModalDraftErrors(m) # <<>>)
     => StoreUnchanged]_vars

\* A save has just been rejected and the dialog is still open on the draft.
C1_Witness ==
  /\ lastOp.op = "modalSave"
  /\ lastOp.errors > 0
  /\ \E m \in ModalIds : modals[m].opened /\ activeZone # <<>> /\ ModalDraftErrors(m) # <<>>

\* C2: every record set a user action placed into recordSets passes the
\* validator: validateRecordInput of its type, name and values is empty.
C2_AuthoredAreValidated ==
  \A i \in 1..Len(recordSets) :
    recordSets[i].id \in authored =>
      validateRecordInput(recordSets[i].type, recordSets[i].name, recordSets[i].values) = <<>>

\* C3: a bulk save with a violation in at least one row stages nothing; a bulk
\* save without violations stages every row, one record set and one change
\* per row, in row order.
C3_BulkAllOrNothing ==
  [][lastOp'.op = "bulkSave" =>
       IF activeZone = <<>> THEN StoreUnchanged
       ELSE IF \E k \in 1..Len(bulk.rows) : RowErrors(bulk.rows[k]) # <<>>
         THEN StoreUnchanged
         ELSE LET n == Len(bulk.rows)
              IN /\ Len(recordSets') = Len(recordSets) + n
                 /\ Len(changes') = Len(changes) + n
                 /\ Len(audit') = Len(audit) + n
                 /\ SubSeq(recordSets', n + 1, Len(recordSets')) = recordSets
                 /\ SubSeq(changes', n + 1, Len(changes')) = changes
                 /\ \A k \in 1..n :
                      LET row == bulk.rows[k]
                          rs == recordSets'[n + 1 - k]
                      IN /\ rs.zoneId = activeZone[1].id
                         /\ rs.type = row.type
                         /\ rs.name = DraftFqdn(row.label, activeZone[1])
                         /\ rs.values = NormalizeValues(row.type, row.values)
                         /\ changes'[n + 1 - k].zoneId = rs.zoneId
                         /\ changes'[n + 1 - k].status = "PENDING"
                         /\ \A j \in 1..Len(recordSets') : j # n + 1 - k => recordSets'[j].id # rs.id
  ]_vars

\* A bulk save of two rows, one of them with a violation, has just been
\* rejected: the rows are still on the page and nothing is staged.
C3_Witness ==
  /\ lastOp.op = "bulkSave"
  /\ lastOp.errors = 1
  /\ bulk.open
  /\ Len(bulk.rows) = 2
  /\ changes = <<>>

\* The zone a record set belongs to.
ZoneOf(rs) == ActiveZoneOf(zones, rs.zoneId)

\* C4: a zone of role secondary has no locally authored record set and no
\* pending change.
C4_SecondaryReceivesNothing ==
  \A i \in 1..Len(zones) :
    zones[i].role = "secondary" =>
      /\ \A j \in 1..Len(recordSets) :
           recordSets[j].zoneId = zones[i].id => recordSets[j].id \notin authored
      /\ \A j \in 1..Len(changes) : changes[j].zoneId # zones[i].id

C6_NameWithinZone ==
  \A i \in 1..Len(recordSets) :
    (recordSets[i].id \in authored /\ ZoneOf(recordSets[i]) # <<>>) =>
      /\ EndsWith(recordSets[i].name, ".")
      /\ \/ recordSets[i].name = ZoneOf(recordSets[i])[1].name
         \/ IsProperSubdomain(recordSets[i].name, ZoneOf(recordSets[i])[1].name)


\* ------------------------------------------- applying and exporting a zone
\* recordValueToApiRecordValue: priority, weight and port only when defined.
recordValueToApiRecordValue(v) ==
  [value |-> v.value, priority |-> v.priority, weight |-> v.weight, port |-> v.port]

\* recordSetToApiRecordSet
recordSetToApiRecordSet(rs) ==
  [name |-> normalizeFqdn(rs.name), type |-> rs.type, ttl |-> rs.ttl,
   values |-> [i \in 1..Len(rs.values) |-> recordValueToApiRecordValue(rs.values[i])]]

\* ConsoleShell: the changes of the active zone that are still PENDING.
pending ==
  IF activeZone = <<>> THEN 0
  ELSE Cardinality({i \in 1..Len(changes) :
                      changes[i].zoneId = activeZone[1].id /\ changes[i].status = "PENDING"})

\* A "change/applyAll" that marks the pending changes of every zone.
ChangeApplyAllZones(list, zoneId) ==
  [i \in 1..Len(list) |->
     IF list[i].status = "PENDING"
       THEN [list[i] EXCEPT !.status = "APPLIED"] ELSE list[i]]

\* "change/applyAll"
ChangeApplyAll(list, zoneId) ==
  [i \in 1..Len(list) |->
     IF list[i].zoneId = zoneId /\ list[i].status = "PENDING"
       THEN [list[i] EXCEPT !.status = "APPLIED"] ELSE list[i]]

\* applyPendingChanges: PUT the active zone's record sets; when the backend
\* accepts, mark the zone's changes applied, log, and refetch the record sets.
ApplyPendingChanges ==
  /\ ~OverlayOpen
  /\ ~bulk.open
  /\ activeZone # <<>>
  /\ activeZoneName # NoName
  /\ pending > 0
  /\ \E ok \in BOOLEAN :
       IF ok
         THEN /\ apiSent' = [zone |-> activeZoneName,
                             recordsets |-> [i \in 1..Len(zoneRecordSets) |->
                                               recordSetToApiRecordSet(zoneRecordSets[i])]]
              /\ changes' = ChangeApplyAll(changes, activeZone[1].id)
              /\ audit' = Log(audit, nextUid, activeZone[1].id, "Applied changes", <<>>)
              /\ nextUid' = nextUid + 1
              /\ recordFetches' = Append(recordFetches, activeZoneName)
              /\ lastOp' = [op |-> "apply", errors |-> 0, staged |-> 0]
         ELSE /\ lastOp' = [op |-> "apply", errors |-> 1, staged |-> 0]
              /\ UNCHANGED <<apiSent, changes, audit, nextUid, recordFetches>>
  /\ UNCHANGED <<zones, recordSets, activeZoneId, activeZoneName, apiZones, zoneFetches,
                 uiVars, authored, rzone, rsets, rperm, rout, routPerm, snippet, fin, fout,
                 vin, vout, puts>>

\* ExportsPage: localZoneFile = computeZoneFile(activeZone, zoneRecordSets),
\* recomputed when the zone or its record sets change.
ExportZoneFile ==
  /\ activeZone # <<>>
  /\ ~OverlayOpen
  /\ rzone # activeZone[1] \/ rsets # zoneRecordSets
  /\ rzone' = activeZone[1]
  /\ rsets' = zoneRecordSets
  /\ rperm' = zoneRecordSets
  /\ rout' = computeZoneFile(activeZone[1], zoneRecordSets)
  /\ routPerm' = rout'
  /\ lastOp' = [op |-> "export", errors |-> 0, staged |-> 0]
  /\ UNCHANGED <<storeVars, netVars, uiVars, nextUid, authored, ioVars>>

NextTtl ==
  \/ ZonesFetched
  \/ RecordSetsFetched
  \/ OpenCreate
  \/ OpenEdit
  \/ \E m \in ModalIds : SetTtl(m)
  \/ \E m \in ModalIds : SetValue(m)
  \/ \E m \in ModalIds : CancelModal(m)
  \/ \E m \in ModalIds : SaveModal(m)
  \/ ApplyPendingChanges
  \/ ExportZoneFile

SpecTtl == InitConsole /\ [][NextTtl]_vars

\* The TTL of a line: the record set's own when it has one, else the zone's.
EffectiveTtl(rs, zone) == IF rs.ttl = None THEN zone.defaultTtl ELSE rs.ttl[1]

\* The record lines of a rendered zone file.
RecordLineIndexes(out) == {j \in 1..Len(out) : out[j][1] = "RR"}

\* Line j is a line of value k of record set rs with the TTL rs has in zone.
IsLineOf(line, rs, k, zone) ==
  /\ line[4] = rs.type
  /\ line[6] = rs.values[k].value
  /\ line[3] = EffectiveTtl(rs, zone)

\* C11: a dialog save stores the TTL as entered, absent when the field is
\* blank; the PUT to the backend carries the stored TTL, absent when absent;
\* every rendered line carries the record set's TTL when it has one (0
\* included) and the defaultTtl of the zone rendered otherwise.
C11_TtlInheritedAtRender ==
  [][/\ (lastOp'.op = "modalSave" /\ lastOp'.staged = 1) =>
          \E m \in ModalIds :
            /\ modals[m].opened
            /\ LET id == IF modals[m].edit # <<>> THEN modals[m].edit[1].id ELSE nextUid
               IN \E i \in 1..Len(recordSets') :
                    /\ recordSets'[i].id = id
                    /\ recordSets'[i].ttl = modals[m].ttl
     /\ (lastOp'.op = "apply" /\ lastOp'.errors = 0) =>
          /\ Len(apiSent'.recordsets) = Len(zoneRecordSets)
          /\ \A i \in 1..Len(zoneRecordSets) :
               apiSent'.recordsets[i].ttl = zoneRecordSets[i].ttl
     /\ lastOp'.op = "export" =>
          /\ \A i \in 1..Len(zoneRecordSets) : \A k \in 1..Len(zoneRecordSets[i].values) :
               \E j \in RecordLineIndexes(rout') :
                 IsLineOf(rout'[j], zoneRecordSets[i], k, activeZone[1])
          /\ \A j \in RecordLineIndexes(rout') :
               \E i \in 1..Len(zoneRecordSets) : \E k \in 1..Len(zoneRecordSets[i].values) :
                 IsLineOf(rout'[j], zoneRecordSets[i], k, activeZone[1])
    ]_vars

\* A record set saved with a blank TTL field has been sent to the backend and
\* rendered: it is stored without a TTL and its line carries the zone's.
C11_Witness ==
  /\ lastOp.op = "export"
  /\ apiSent # <<>>
  /\ \E i \in 1..Len(rsets) :
       /\ rsets[i].ttl = None
       /\ \E j \in RecordLineIndexes(rout) :
            IsLineOf(rout[j], rsets[i], 1, rzone) /\ rout[j][3] = rzone.defaultTtl


\* ------------------------------------------------ MX and SRV field defaults
\* The number a field of a value shows on its line: its own, or the fallback.
Shown(field, fallback) == IF field = None THEN fallback ELSE field[1]

\* C12: rendering leaves the record sets as they are; an MX line carries the
\* value's priority, or 10 when it has none; an SRV line carries priority,
\* weight and port, or 10, 5 and 443 for those it lacks; a priority, weight or
\* port of 0 is carried as 0.
C12_MxSrvDefaults ==
  [][(rout = <<>> /\ rout' # <<>>) =>
       /\ rsets' = rsets
       /\ rzone' = rzone
       /\ \A i \in 1..Len(rsets) : \A k \in 1..Len(rsets[i].values) :
            LET v == rsets[i].values[k]
                lines == {j \in RecordLineIndexes(rout') :
                            rout'[j][4] = rsets[i].type /\ rout'[j][6] = v.value}
            IN /\ lines # {}
               /\ rsets[i].type = "MX" =>
                    \A j \in lines : rout'[j][5] = <<Shown(v.priority, 10)>>
               /\ rsets[i].type = "SRV" =>
                    \A j \in lines :
                      rout'[j][5] = <<Shown(v.priority, 10), Shown(v.weight, 5),
                                      Shown(v.port, 443)>>
               /\ rsets[i].type \notin {"MX", "SRV"} =>
                    \A j \in lines : rout'[j][5] = <<>>
    ]_vars

\* A zone file has been rendered from an MX value without priority and an SRV
\* value that carries a weight of 0 and neither priority nor port.
C12_Witness ==
  /\ rout # <<>>
  /\ \E i \in 1..Len(rsets) : rsets[i].type = "MX" /\ rsets[i].values[1].priority = None
  /\ \E i \in 1..Len(rsets) :
       /\ rsets[i].type = "SRV"
       /\ rsets[i].values[1].priority = None
       /\ rsets[i].values[1].weight = Some(0)


\* ------------------------------------------------- computeNamedConfSnippet
MaxAcl == 2

\* A clause without the test of the list's length.
ClauseAlways(keyword, entries) ==
  keyword \o <<" ", "{", " ">> \o Join(entries, <<";", " ">>) \o <<";", " ", "}", ";">>

\* list.length ? `keyword { ${list.join("; ")}; };` : ""
Clause(keyword, entries) ==
  IF Len(entries) # 0
    THEN keyword \o <<" ", "{", " ">> \o Join(entries, <<";", " ">>) \o <<";", " ", "}", ";">>
    ELSE <<>>

\* The lines of the template literal computeNamedConfSnippet returns.
computeNamedConfSnippet(zone) ==
  LET zName == humanizeZoneName(zone.name)
      file == <<"/", "e", "t", "c", "/", "b", "i", "n", "d", "/", "z", "o", "n", "e", "s", "/", "d", "b", ".">> \o zName
      allow == Clause(<<"a", "l", "l", "o", "w", "-", "t", "r", "a", "n", "s", "f", "e", "r">>, zone.allowTransferTo)
      notify == Clause(<<"a", "l", "s", "o", "-", "n", "o", "t", "i", "f", "y">>, zone.notifyTargets)
      dnssec == IF zone.dnssecEnabled THEN "dnssec-policy default;"
                ELSE "dnssec-validation no;"
  IN << <<"// named.conf.local snippet">>,
        <<"zone", zName, "{">>,
        <<"type", "master">>,
        <<"file", file>>,
        <<"  ", allow>>,
        <<"  ", notify>>,
        <<"  ", dnssec>>,
        <<"};">> >>

\* Addresses a zone lists for transfers and notifications.
AclPool == {<<"1", ".", "1", ".", "1", ".", "1">>, <<"k">>}

ZoneRoles == {"primary", "secondary"}

SnippetZone(name, role, allow, notify, dnssec) ==
  [id |-> 1, name |-> name, type |-> "forward", role |-> role, defaultTtl |-> 300,
   dnssecEnabled |-> dnssec, allowTransferTo |-> allow, notifyTargets |-> notify,
   soa |-> DefaultSoa, nameServers |-> <<>>]

InitNamedConf ==
  /\ ClientInitial
  /\ apiZones = <<>>
  /\ zoneFetches = 0
  /\ recordFetches = <<>>
  /\ \E name \in {ZoneZ, <<"z">>}, role \in ZoneRoles, dnssec \in BOOLEAN,
        allow \in SeqsUpTo(AclPool, MaxAcl), notify \in SeqsUpTo(AclPool, MaxAcl) :
       rzone = SnippetZone(name, role, allow, notify, dnssec)
  /\ rsets = <<>>
  /\ rperm = <<>>
  /\ rout = <<>>
  /\ routPerm = <<>>
  /\ IoIdle

\* ExportsPage: named = computeNamedConfSnippet(activeZone)
ComputeNamedConf ==
  /\ snippet = <<>>
  /\ snippet' = computeNamedConfSnippet(rzone)
  /\ UNCHANGED <<rzone, rsets, rperm, rout, routPerm, fin, fout, vin, vout, apiSent, puts>>
  /\ UNCHANGED <<storeVars, netVars, uiVars, nextUid, authored, lastOp>>

NextNamedConf == ComputeNamedConf

SpecNamedConf == InitNamedConf /\ [][NextNamedConf]_vars

\* Every entry, in list order, each preceded by a blank and followed by ";".
RECURSIVE EachWithSemicolon(_)
EachWithSemicolon(entries) ==
  IF entries = <<>> THEN <<>>
  ELSE <<" ">> \o Head(entries) \o <<";">> \o EachWithSemicolon(Tail(entries))

\* The text of a clause that lists entries, and no text for an empty list.
ExpectedClause(keyword, entries) ==
  IF entries = <<>> THEN <<>>
  ELSE keyword \o <<" ", "{">> \o EachWithSemicolon(entries) \o <<" ", "}", ";">>

\* C13: the snippet has an allow-transfer clause exactly when allowTransferTo
\* is non-empty and an also-notify clause exactly when notifyTargets is
\* non-empty; a clause lists the entries verbatim in list order, each followed
\* by ";", and no clause with empty braces is emitted.
C13_ClausesOnlyWhenNonEmpty ==
  snippet # <<>> =>
    /\ snippet[5] = <<"  ", ExpectedClause(<<"a", "l", "l", "o", "w", "-", "t", "r", "a", "n", "s", "f", "e", "r">>, rzone.allowTransferTo)>>
    /\ snippet[6] = <<"  ", ExpectedClause(<<"a", "l", "s", "o", "-", "n", "o", "t", "i", "f", "y">>, rzone.notifyTargets)>>
    /\ \A j \in 1..Len(snippet) :
         (Len(snippet[j]) = 2 /\ snippet[j][1] = "  " /\ j \in {5, 6}) =>
           /\ IndexOf(snippet[j][2], <<"{", " ", "}">>) = 0
           /\ IndexOf(snippet[j][2], <<"{", " ", ";">>) = 0
           /\ IndexOf(snippet[j][2], <<"{", "}">>) = 0

\* A snippet computed for a zone that lists two transfer targets and no
\* notification target.
C13_Witness ==
  /\ snippet # <<>>
  /\ Len(rzone.allowTransferTo) = 2
  /\ rzone.notifyTargets = <<>>
  /\ snippet[6] = <<"  ", <<>> >>

\* C14: the type line of the snippet follows the zone's role: master for a
\* primary zone, slave for a secondary zone.
C14_TypeFollowsRole ==
  snippet # <<>> =>
    snippet[3] = <<"type", IF rzone.role = "secondary" THEN "slave" ELSE "master">>


\* ------------------------------------------------- the FQDN helpers alone
MaxLen == 3

\* What can be typed into a name field: blanks, dots, a letter and "@".
NameChars == {" ", ".", "a", "@"}

NameStrings == SeqsUpTo(NameChars, MaxLen)

\* Zone names as the store holds them and as a caller may pass them.
ZoneNameInputs == {<<>>, <<"z">>, <<"z", ".">>, <<" ", "z", " ">>}

InitFqdn ==
  /\ ClientInitial
  /\ apiZones = <<>>
  /\ zoneFetches = 0
  /\ recordFetches = <<>>
  /\ rzone = <<>>
  /\ rsets = <<>>
  /\ rperm = <<>>
  /\ rout = <<>>
  /\ routPerm = <<>>
  /\ snippet = <<>>
  /\ fin \in [s : NameStrings, zoneName : ZoneNameInputs]
  /\ fout = <<>>
  /\ vin = <<>>
  /\ vout = <<>>
  /\ apiSent = <<>>
  /\ puts = <<>>

FqdnUnchanged ==
  /\ UNCHANGED <<rzone, rsets, rperm, rout, routPerm, snippet, fin, vin, vout, apiSent, puts>>
  /\ UNCHANGED <<storeVars, netVars, uiVars, nextUid, authored, lastOp>>

\* normalizeFqdn(s), and normalizeFqdn of its result.
ApplyNormalizeFqdn ==
  /\ fout = <<>>
  /\ fout' = [op |-> "normalizeFqdn", result |-> normalizeFqdn(fin.s),
              again |-> normalizeFqdn(normalizeFqdn(fin.s))]
  /\ FqdnUnchanged

\* fqdnJoin(label, zoneName)
ApplyFqdnJoin ==
  /\ fout = <<>>
  /\ fout' = [op |-> "fqdnJoin", result |-> fqdnJoin(fin.s, fin.zoneName),
              again |-> <<>>]
  /\ FqdnUnchanged

NextFqdn == ApplyNormalizeFqdn \/ ApplyFqdnJoin

SpecFqdn == InitFqdn /\ [][NextFqdn]_vars

IsBlank(s) == \A i \in 1..Len(s) : s[i] = " "

\* s without the blanks before its first and after its last non-blank character.
Trimmed(s) ==
  IF IsBlank(s) THEN <<>>
  ELSE LET solid == {i \in 1..Len(s) : s[i] # " "}
           first == CHOOSE i \in solid : \A j \in solid : i <= j
           last == CHOOSE i \in solid : \A j \in solid : j <= i
       IN SubSeq(s, first, last)

\* C15: normalizeFqdn applied twice gives what it gives applied once; a blank
\* input gives ""; any other input gives its trimmed form, with one dot
\* appended when the trimmed form does not end with a dot and unchanged when it
\* does, however many dots it ends with.
C15_NormalizeIdempotent ==
  (fout # <<>> /\ fout.op = "normalizeFqdn") =>
    /\ fout.again = fout.result
    /\ IsBlank(fin.s) => fout.result = <<>>
    /\ ~IsBlank(fin.s) =>
         LET t == Trimmed(fin.s)
         IN fout.result = IF t[Len(t)] = "." THEN t ELSE t \o <<".">>

\* normalizeFqdn has been applied to a name that ends with two dots.
C15_Witness ==
  /\ fout # <<>>
  /\ fout.op = "normalizeFqdn"
  /\ Len(fin.s) = 3
  /\ fin.s[2] = "."
  /\ fin.s[3] = "."
  /\ fout.result = fin.s


\* C16, as stated: fqdnJoin returns the normalized zone name when the label
\* is "@" or blank, the label itself, unmodified, when the label ends with a
\* dot, and normalizeFqdn(label + "." + normalizeFqdn(zoneName)) otherwise; for
\* a non-blank zone name the result ends with a dot.
C16_JoinOfLabel ==
  (fout # <<>> /\ fout.op = "fqdnJoin") =>
    LET label == fin.s
        z == normalizeFqdn(fin.zoneName)
    IN /\ fout.result =
            IF label = <<"@">> \/ IsBlank(label) THEN z
            ELSE IF label[Len(label)] = "." THEN label
            ELSE normalizeFqdn(label \o <<".">> \o z)
       /\ ~IsBlank(fin.zoneName) => EndsWith(fout.result, ".")

\* C16, amended: the same with the label trimmed first: the normalized zone
\* name when the trimmed label is "@" or empty, the trimmed label when it ends
\* with a dot, normalizeFqdn(trimmed label + "." + normalizeFqdn(zoneName))
\* otherwise; for a non-blank zone name the result ends with a dot.
C16_JoinOfTrimmedLabel ==
  (fout # <<>> /\ fout.op = "fqdnJoin") =>
    LET l == Trimmed(fin.s)
        z == normalizeFqdn(fin.zoneName)
    IN /\ fout.result =
            IF l = <<"@">> \/ l = <<>> THEN z
            ELSE IF l[Len(l)] = "." THEN l
            ELSE normalizeFqdn(l \o <<".">> \o z)
       /\ ~IsBlank(fin.zoneName) => EndsWith(fout.result, ".")

\* fqdnJoin has been applied to a label that ends with a dot and starts with
\* a blank, and to a zone it does not lie in.
C16_Witness ==
  /\ fout # <<>>
  /\ fout.op = "fqdnJoin"
  /\ fin.s = <<" ", "a", ".">>
  /\ fin.zoneName = <<"z", ".">>
  /\ fout.result = <<"a", ".">>


\* ------------------------------------------------- the validator alone
\* Names as a caller may pass them.
ValidatorNames == {<<>>, <<" ">>, <<"a", ".">>}

FullValue(s, priority, weight, port) ==
  [value |-> s, priority |-> priority, weight |-> weight, port |-> port]

\* Values as a caller may pass them: empty, an address, targets with and
\* without the final dot and with blanks around, with and without priority,
\* weight and port, with null for them as JSON from the backend may carry, a
\* CAA value and an IPv6 address.
ValuePool ==
  { PlainValue(<<>>),
    PlainValue(<<"1", "0", ".", "0", ".", "0", ".", "1">>),
    PlainValue(<<"t", ".">>),
    PlainValue(<<"t">>),
    PlainValue(<<" ", "t", ".", " ">>),
    FullValue(<<"t", ".">>, Some(0), None, None),
    FullValue(<<"t">>, Some(10), Some(5), Some(443)),
    FullValue(<<"t", ".">>, Some(10), Some(0), Some(443)),
    PlainValue(<<"0", " ", "i", "s", "s", "u", "e", " ", "x">>),
    FullValue(<<"t", ".">>, Null, Null, Null),
    FullValue(<<"t", ".">>, Some(1), Null, Some(80)),
    PlainValue(<<":", ":", "1">>) }

\* The parts of the values tried as IPv4 addresses: octets in and out of range,
\* with a leading zero, a sign, a blank, a trailing character, and nothing.
SegPool == {<<"0">>, <<"1", "0">>, <<"2", "5", "5">>, <<"2", "5", "6">>, <<"0", "1">>, <<"-", "0">>, <<"1", " ">>, <<"1", "a">>, <<>>}

SegCounts == {3, 4, 5}

AddressInputs ==
  {Join(segs, <<".">>) : segs \in UNION {[1..n -> SegPool] : n \in SegCounts}}

ValidatorInputs ==
  [type : RecordTypes, name : ValidatorNames, values : SeqsUpTo(ValuePool, MaxValues)]
  \cup {[type |-> "A", name |-> <<"a", ".">>, values |-> <<PlainValue(a)>>] : a \in AddressInputs}

InitValidate ==
  /\ ClientInitial
  /\ apiZones = <<>>
  /\ zoneFetches = 0
  /\ recordFetches = <<>>
  /\ rzone = <<>>
  /\ rsets = <<>>
  /\ rperm = <<>>
  /\ rout = <<>>
  /\ routPerm = <<>>
  /\ snippet = <<>>
  /\ fin = <<>>
  /\ fout = <<>>
  /\ vin \in ValidatorInputs
  /\ vout = <<>>
  /\ apiSent = <<>>
  /\ puts = <<>>

\* const errors = validateRecordInput({ type, name, values })
Validate ==
  /\ vout = <<>>
  /\ vout' = [errors |-> validateRecordInput(vin.type, vin.name, vin.values)]
  /\ UNCHANGED <<rzone, rsets, rperm, rout, routPerm, snippet, fin, fout, vin, apiSent, puts>>
  /\ UNCHANGED <<storeVars, netVars, uiVars, nextUid, authored, lastOp>>

NextValidate == Validate

SpecValidate == InitValidate /\ [][NextValidate]_vars

\* The texts of the rules, without the interpolated value.
RuleTexts ==
  {"Name is required.", "At least one value is required.",
   "Record value cannot be empty.", "Invalid IPv4 address", "Invalid IPv6 address",
   "targets should end in . (FQDN)", "MX requires priority.",
   "SRV requires priority, weight, and port.",
   "CAA should look like: 0 issue letsencrypt.org"}

\* How many of the messages carry the text of a rule.
CountOf(errors, rule) == Cardinality({j \in 1..Len(errors) : errors[j].rule = rule})

\* How many values break a rule.
Breaking(values, Breaks(_)) == Cardinality({k \in 1..Len(values) : Breaks(values[k])})

EndsWithDot(s) == s # <<>> /\ s[Len(s)] = "."

\* The canonical decimal strings of the integers 0..255.
CanonicalOctets == {NatToString(n) : n \in 0..255}

\* Exactly four dot-separated segments, each a canonical octet.
IsDottedQuad(s) ==
  /\ Len(Split(s, ".")) = 4
  /\ \A i \in 1..4 : Split(s, ".")[i] \in CanonicalOctets

\* No field of a value is null: each is a number or undefined.
WithoutNull(values) ==
  \A k \in 1..Len(values) :
    Null \notin {values[k].priority, values[k].weight, values[k].port}

C18_AcceptsExactlyDottedQuads ==
  (vout # <<>> /\ vin.type = "A" /\ ~IsBlank(vin.name) /\ vin.values # <<>>) =>
    (vout.errors = <<>>
       <=> \A k \in 1..Len(vin.values) : IsDottedQuad(vin.values[k].value))

\* C18, amended: for type A the validator adds no message exactly when each
\* value, with the blanks around it removed, is four dot-separated canonical
\* octets in 0..255.
C18_AcceptsExactlyTrimmedDottedQuads ==
  (vout # <<>> /\ vin.type = "A" /\ ~IsBlank(vin.name) /\ vin.values # <<>>) =>
    (vout.errors = <<>>
       <=> \A k \in 1..Len(vin.values) : IsDottedQuad(Trimmed(vin.values[k].value)))

\* An address followed by a blank has been validated as type A and accepted.
C18_Witness ==
  /\ vout # <<>>
  /\ vin.type = "A"
  /\ vin.values = <<PlainValue(<<"1", "0", ".", "0", ".", "0", ".", "1", " ">>)>>
  /\ vout.errors = <<>>


\* C19: for each of the types CNAME, NS, PTR, MX and SRV the validator
\* returns a non-empty list whenever some value, with the blanks around it
\* removed, does not end with a dot; for the types A, AAAA, TXT and CAA the
\* list never holds the message of this rule.
C19_FqdnTargets ==
  vout # <<>> =>
    /\ (/\ vin.type \in {"CNAME", "NS", "PTR", "MX", "SRV"}
        /\ \E k \in 1..Len(vin.values) : ~EndsWithDot(Trimmed(vin.values[k].value)))
         => vout.errors # <<>>
    /\ vin.type \in {"A", "AAAA", "TXT", "CAA"}
         => CountOf(vout.errors, "targets should end in . (FQDN)") = 0

\* An MX value that has everything but the final dot has been validated, under
\* a good name, and so has a TXT value without a final dot.
C19_Witness ==
  /\ vout # <<>>
  /\ vin.name = <<"a", ".">>
  /\ \/ /\ vin.type = "MX"
        /\ vin.values = <<FullValue(<<"t">>, Some(10), Some(5), Some(443))>>
        /\ Len(vout.errors) = 1
     \/ /\ vin.type = "TXT"
        /\ vin.values = <<PlainValue(<<"t">>)>>
        /\ vout.errors = <<>>

\* C20: for type MX the validator returns a non-empty list whenever some
\* value has no priority (undefined or null), and the empty list when the name is not blank,
\* there is at least one value, and every value has a priority, 0 included,
\* and a target ending with a dot.
C20_MxPriority ==
  (vout # <<>> /\ vin.type = "MX") =>
    /\ (\E k \in 1..Len(vin.values) : vin.values[k].priority \in {None, Null})
         => vout.errors # <<>>
    /\ (/\ ~IsBlank(vin.name)
        /\ vin.values # <<>>
        /\ \A k \in 1..Len(vin.values) :
             /\ vin.values[k].priority \notin {None, Null}
             /\ EndsWithDot(Trimmed(vin.values[k].value)))
         => vout.errors = <<>>

\* An MX input with priority 0 and a dotted target has been validated and
\* found good.
C20_Witness ==
  /\ vout # <<>>
  /\ vin.type = "MX"
  /\ vin.name = <<"a", ".">>
  /\ vin.values = <<FullValue(<<"t", ".">>, Some(0), None, None)>>
  /\ vout.errors = <<>>


\* C21: for type SRV the validator returns a non-empty list whenever some
\* value lacks one of priority, weight and port, a field being lacking when
\* it is undefined or null.
C21_SrvFieldsPresent ==
  (vout # <<>> /\ vin.type = "SRV") =>
    ((\E k \in 1..Len(vin.values) :
        \E f \in {vin.values[k].priority, vin.values[k].weight, vin.values[k].port} :
          f \in {None, Null})
       => vout.errors # <<>>)


\* ------------------------------------------------- the store's verbs at work
MaxChanges == 2
MaxPuts == 1
MaxEvents == 3

\* "change/revert"
ChangeRevert(list, changeId) == SelectSeq(list, LAMBDA c : c.id # changeId)

\* A "change/revertAll" that drops the zone's changes whatever their status.
ChangeRevertAllOfZone(list, zoneId) == SelectSeq(list, LAMBDA c : c.zoneId # zoneId)

\* "change/revertAll"
ChangeRevertAll(list, zoneId) ==
  SelectSeq(list, LAMBDA c : ~(c.zoneId = zoneId /\ c.status = "PENDING"))

NewValue == PlainValue(<<"1", ".", "1", ".", "1", ".", "1">>)

\* What a caller hands to upsertRecordSet: a record set of the active zone
\* with its value list replaced, or a new record set with a fresh id.
UpsertInputs ==
  IF activeZone = <<>> THEN {}
  ELSE {[zoneRecordSets[i] EXCEPT !.values = <<NewValue>>] : i \in 1..Len(zoneRecordSets)}
       \cup {[id |-> nextUid, zoneId |-> activeZone[1].id,
              name |-> fqdnJoin(<<"n">>, activeZone[1].name), type |-> "A",
              ttl |-> None, values |-> <<NewValue>>]}

\* What a caller hands to deleteRecordSet: the id of a stored record set, or
\* an id the store does not hold.
DeleteInputs == {recordSets[i].id : i \in 1..Len(recordSets)} \cup {NoId}

\* What a caller hands to revertChange: the id of a change of the list, or an
\* id the list does not hold.
RevertInputs == {changes[i].id : i \in 1..Len(changes)} \cup {NoId}

\* refetchRecordSetsApi(): fetchRecordSets of the current render, which asks
\* for the record sets of state.activeZoneName.
Refetched(fetches) ==
  IF activeZoneName # NoName THEN Append(fetches, activeZoneName) ELSE fetches

\* upsertRecordSet(rs, summary, details)
StageUpsert(rs) ==
  /\ Len(changes) < MaxChanges
  /\ Len(audit) < MaxEvents
  /\ LET isNew == rs.id = nextUid
         base == IF isNew THEN nextUid + 1 ELSE nextUid
     IN /\ UpsertRecordSet(rs, IF isNew THEN "Create" ELSE "Update", base, base + 1)
        /\ nextUid' = base + 2
  /\ lastOp' = Other
  /\ UNCHANGED <<zones, activeZoneId, activeZoneName, netVars, uiVars, renderVars>>

\* deleteRecordSet(recordSetId, summary, details)
StageDelete(recordSetId) ==
  /\ Len(changes) < MaxChanges
  /\ Len(audit) < MaxEvents
  /\ recordSets' = RecordDelete(recordSets, recordSetId)
  /\ authored' = authored \ {recordSetId}
  /\ IF \E i \in 1..Len(recordSets) : recordSets[i].id = recordSetId
       THEN LET rs == recordSets[CHOOSE i \in 1..Len(recordSets) :
                                   /\ recordSets[i].id = recordSetId
                                   /\ \A j \in 1..(i - 1) : recordSets[j].id # recordSetId]
            IN /\ changes' = AddChange(changes, nextUid, rs.zoneId,
                                       <<"Delete", rs.type, rs.name>>)
               /\ audit' = Log(audit, nextUid + 1, rs.zoneId, "Deleted record",
                               <<rs.type, rs.name>>)
               /\ nextUid' = nextUid + 2
               /\ lastOp' = Other
       ELSE /\ lastOp' = Other
            /\ UNCHANGED <<changes, audit, nextUid>>
  /\ UNCHANGED <<zones, activeZoneId, activeZoneName, netVars, uiVars, renderVars>>

\* The ids of the changes of a zone that are PENDING.
PendingIds(list, zoneId) ==
  {list[i].id : i \in {j \in 1..Len(list) :
                         list[j].zoneId = zoneId /\ list[j].status = "PENDING"}}

\* applyPendingChanges up to its await: without an active zone it returns,
\* otherwise it sends the active zone's record sets. The request remembers the
\* zone of the render that made the call, and (as history) which changes were
\* pending when the payload was built. With an active zone the call comes
\* from the Apply button of ConsoleShell, disabled while nothing is pending.
ApplyStart ==
  /\ Len(puts) < MaxPuts
  /\ activeZone # <<>> => pending > 0
  /\ IF activeZone = <<>> \/ activeZoneName = NoName
       THEN /\ lastOp' = Other
            /\ UNCHANGED puts
       ELSE /\ puts' = Append(puts,
                 [zoneId |-> activeZone[1].id, zoneName |-> activeZoneName,
                  recordsets |-> [i \in 1..Len(zoneRecordSets) |->
                                    recordSetToApiRecordSet(zoneRecordSets[i])],
                  covered |-> PendingIds(changes, activeZone[1].id),
                  status |-> "sent"])
            /\ lastOp' = Other
  /\ UNCHANGED <<storeVars, netVars, uiVars, nextUid, authored, rzone, rsets, rperm,
                 rout, routPerm, snippet, fin, fout, vin, vout, apiSent>>

\* applyPendingChanges after its await: replaceRecordSets answered true or
\* false. On true, "change/applyAll" for the zone of the call, the log entry,
\* and the refetch of the call's render.
ApplyDone ==
  \E k \in 1..Len(puts) : \E success \in BOOLEAN :
    LET req == puts[k]
    IN /\ req.status = "sent"
       /\ Len(recordFetches) < MaxPending
       /\ IF success
            THEN /\ apiSent' = [zone |-> req.zoneName, recordsets |-> req.recordsets]
                 /\ changes' = ChangeApplyAll(changes, req.zoneId)
                 /\ audit' = Log(audit, nextUid, req.zoneId, "Applied changes", <<>>)
                 /\ nextUid' = nextUid + 1
                 /\ recordFetches' = Append(recordFetches, req.zoneName)
                 /\ puts' = [puts EXCEPT ![k].status = "ok"]
                 /\ lastOp' = Other
            ELSE /\ puts' = [puts EXCEPT ![k].status = "failed"]
                 /\ lastOp' = Other
                 /\ UNCHANGED <<apiSent, changes, audit, nextUid, recordFetches>>
       /\ UNCHANGED <<zones, recordSets, activeZoneId, activeZoneName, apiZones,
                      zoneFetches, uiVars, authored, rzone, rsets, rperm, rout, routPerm,
                      snippet, fin, fout, vin, vout>>

\* revertChange(changeId)
RevertChange(changeId) ==
  /\ Len(audit) <= MaxEvents
  /\ Len(recordFetches) < MaxPending
  /\ IF \E i \in 1..Len(changes) : changes[i].id = changeId /\ changes[i].status = "PENDING"
       THEN LET change == changes[CHOOSE i \in 1..Len(changes) : changes[i].id = changeId]
            IN /\ changes' = ChangeRevert(changes, changeId)
               /\ audit' = Log(audit, nextUid, change.zoneId, "Reverted change",
                               change.summary)
               /\ nextUid' = nextUid + 1
               /\ recordFetches' = Refetched(recordFetches)
               /\ lastOp' = Other
       ELSE /\ lastOp' = Other
            /\ UNCHANGED <<changes, audit, nextUid, recordFetches>>
  /\ UNCHANGED <<zones, recordSets, activeZoneId, activeZoneName, apiZones, zoneFetches,
                 uiVars, authored, renderVars>>

\* revertAllChanges(zoneId)
RevertAllChanges(zoneId) ==
  /\ Len(audit) <= MaxEvents
  /\ Len(recordFetches) < MaxPending
  /\ LET pendingCount == Cardinality(PendingIds(changes, zoneId))
     IN IF pendingCount > 0
          THEN /\ changes' = ChangeRevertAll(changes, zoneId)
               /\ audit' = Log(audit, nextUid, zoneId, "Reverted all changes", pendingCount)
               /\ nextUid' = nextUid + 1
               /\ recordFetches' = Refetched(recordFetches)
               /\ lastOp' = Other
          ELSE /\ lastOp' = Other
               /\ UNCHANGED <<changes, audit, nextUid, recordFetches>>
  /\ UNCHANGED <<zones, recordSets, activeZoneId, activeZoneName, apiZones, zoneFetches,
                 uiVars, authored, renderVars>>

NextStore ==
  \/ ZonesFetched
  \/ RecordSetsFetched
  \/ \E rs \in UpsertInputs : StageUpsert(rs)
  \/ \E id \in DeleteInputs : StageDelete(id)
  \/ ApplyStart
  \/ ApplyDone

\* Record sets are staged, deleted and applied in any order while requests
\* are in flight.
SpecStore == InitConsole /\ [][NextStore]_vars

NextRevert ==
  \/ ZonesFetched
  \/ RecordSetsFetched
  \/ \E rs \in UpsertInputs : StageUpsert(rs)
  \/ ApplyStart
  \/ ApplyDone
  \/ \E id \in RevertInputs : RevertChange(id)
  \/ \E i \in 1..Len(zones) : RevertAllChanges(zones[i].id)

\* Record sets are staged, applied and reverted in any order while requests
\* are in flight.
SpecRevert == InitConsole /\ [][NextRevert]_vars

NextApply ==
  \/ ZonesFetched
  \/ RecordSetsFetched
  \/ CreateZone
  \/ \E rs \in UpsertInputs : StageUpsert(rs)
  \/ ApplyStart
  \/ ApplyDone

\* Changes are staged and applied while a second zone is created.
SpecApply == InitConsole /\ [][NextApply]_vars


\* Some change of the list is PENDING before the step and APPLIED after it.
SomeChangeApplied ==
  \E i \in 1..Len(changes) : \E j \in 1..Len(changes') :
    /\ changes[i].id = changes'[j].id
    /\ changes[i].status = "PENDING"
    /\ changes'[j].status = "APPLIED"

\* The step is the answer to the k-th PUT.
Answered(k, status) ==
  /\ k \in 1..Len(puts)
  /\ Len(puts') = Len(puts)
  /\ puts[k].status = "sent"
  /\ puts'[k].status = status

\* C22: a change goes from PENDING to APPLIED only in the step in which a PUT
\* of applyPendingChanges is answered with success; that step makes APPLIED
\* exactly the changes that are PENDING and of the zone the call was made for,
\* and leaves every other change as it is; a PUT answered with failure, and a
\* call without an active zone, leave recordSets, changes and audit as they are.
C22_AppliedOnlyByApply ==
  [][ /\ SomeChangeApplied => \E k \in 1..Len(puts) : Answered(k, "ok")
      /\ \A k \in 1..Len(puts) :
           Answered(k, "ok") =>
             /\ Len(changes') = Len(changes)
             /\ \A i \in 1..Len(changes) :
                  IF changes[i].zoneId = puts[k].zoneId /\ changes[i].status = "PENDING"
                    THEN changes'[i] = [changes[i] EXCEPT !.status = "APPLIED"]
                    ELSE changes'[i] = changes[i]
      /\ \A k \in 1..Len(puts) :
           Answered(k, "failed") => UNCHANGED <<recordSets, changes, audit>>
      /\ (ApplyStart /\ activeZone = <<>>) => UNCHANGED <<recordSets, changes, audit, puts>>
    ]_vars

\* A PUT for one zone has been answered with success: a change of that zone
\* is APPLIED while a change of another zone is still PENDING.
C22_Witness ==
  \E k \in 1..Len(puts) :
    /\ puts[k].status = "ok"
    /\ \E i \in 1..Len(changes) :
         changes[i].zoneId = puts[k].zoneId /\ changes[i].status = "APPLIED"
    /\ \E i \in 1..Len(changes) :
         changes[i].zoneId # puts[k].zoneId /\ changes[i].status = "PENDING"


IdsOf(list) == {list[i].id : i \in 1..Len(list)}

IdsUnique(list) == \A i, j \in 1..Len(list) : list[i].id = list[j].id => i = j

\* C23: upsertRecordSet of a record set whose id is stored puts it in the
\* place of the stored one, the list as long as before and every other record
\* set where and as it was; of a record set with a new id it puts it in front;
\* deleteRecordSet removes the record sets with that id and keeps the others,
\* in their order; the ids of the stored record sets stay distinct.
C23_ReplaceAndRemove ==
  [][ /\ \A rs \in UpsertInputs :
           StageUpsert(rs) =>
             IF rs.id \in IdsOf(recordSets)
               THEN /\ Len(recordSets') = Len(recordSets)
                    /\ \A i \in 1..Len(recordSets) :
                         recordSets'[i] = IF recordSets[i].id = rs.id THEN rs
                                          ELSE recordSets[i]
               ELSE /\ Len(recordSets') = Len(recordSets) + 1
                    /\ recordSets'[1] = rs
                    /\ \A i \in 1..Len(recordSets) : recordSets'[i + 1] = recordSets[i]
      /\ \A id \in DeleteInputs :
           StageDelete(id) =>
             /\ id \notin IdsOf(recordSets')
             /\ Len(recordSets') = Cardinality({i \in 1..Len(recordSets) :
                                                  recordSets[i].id # id})
             /\ \A i, j \in 1..Len(recordSets) :
                  (i < j /\ recordSets[i].id # id /\ recordSets[j].id # id) =>
                    \E k, l \in 1..Len(recordSets') :
                      k < l /\ recordSets'[k] = recordSets[i] /\ recordSets'[l] = recordSets[j]
             /\ \A i \in 1..Len(recordSets) :
                  recordSets[i].id # id => \E k \in 1..Len(recordSets') :
                                             recordSets'[k] = recordSets[i]
      /\ IdsUnique(recordSets')
    ]_vars

\* A new record set was put in front and then the fetched one was replaced in
\* its place behind it.
C23_Witness ==
  /\ Len(recordSets) = 2
  /\ recordSets[1].name = <<"n", ".", "z", ".">>
  /\ recordSets[2].name = <<"w", ".", "z", ".">>
  /\ recordSets[2].values = <<NewValue>>
  /\ Len(changes) = 2


\* The payload holds a record set of the type and name the summary names.
InPayload(summary, recordsets) ==
  \E r \in 1..Len(recordsets) :
    recordsets[r].type = summary[2] /\ recordsets[r].name = normalizeFqdn(summary[3])

\* The payload agrees with what the change describes: the record set a
\* Create or Update names is in it, the one a Delete names is not.
Describes(change, recordsets) ==
  IF change.summary[1] = "Delete" THEN ~InPayload(change.summary, recordsets)
  ELSE InPayload(change.summary, recordsets)

\* C24: every change marked APPLIED was sent: it was pending when the payload
\* of a PUT answered with success was built, or that payload agrees with what
\* it describes. A change staged while the request was in flight is not marked
\* by its completion unless the payload holds its record-set state.
C24_AppliedWasSent ==
  \A i \in 1..Len(changes) :
    changes[i].status = "APPLIED" =>
      \E k \in 1..Len(puts) :
        /\ puts[k].status = "ok"
        /\ \/ changes[i].id \in puts[k].covered
           \/ Describes(changes[i], puts[k].recordsets)


\* The store holds a record set of the change's zone with the type and name
\* the summary names.
InStore(change) ==
  \E r \in 1..Len(recordSets) :
    /\ recordSets[r].zoneId = change.zoneId
    /\ recordSets[r].type = change.summary[2]
    /\ recordSets[r].name = change.summary[3]

\* Every PENDING change about another record set than the one `reverted`
\* names is reflected in recordSets: what it created or updated is there, what
\* it deleted is not.
PendingReflected(reverted) ==
  \A i \in 1..Len(changes) :
    (/\ changes[i].status = "PENDING"
     /\ <<changes[i].summary[2], changes[i].summary[3]>> # <<reverted[2], reverted[3]>>) =>
      IF changes[i].summary[1] = "Delete" THEN ~InStore(changes[i]) ELSE InStore(changes[i])

\* C25: when the last logged action is the revert of one change and the only
\* record-set request in flight, the one that revert started, is answered,
\* the changes still PENDING about other record sets than the reverted one,
\* reflected in recordSets before the answer, are reflected after it.
C25_RevertKeepsOthers ==
  [][ (/\ audit # <<>>
       /\ audit[1].action = "Reverted change"
       /\ Len(recordFetches) = 1
       /\ recordFetches' = <<>>
       /\ PendingReflected(audit[1].detail))
        => PendingReflected(audit[1].detail)'
    ]_vars


\* C26: whenever the store holds zones and an active zone id, some zone of
\* the store has that id.
C26_ActiveZoneResolvable ==
  (zones # <<>> /\ activeZoneId # NoId) => activeZone # <<>>

\* C27: once every record-set request has been answered, each record set
\* stored under the active zone's id that was not staged locally is one the
\* backend returns for the active zone's name.
C27_RecordSetsOfActiveZone ==
  (recordFetches = <<>> /\ activeZoneId # NoId) =>
    \A i \in 1..Len(recordSets) :
      (recordSets[i].zoneId = activeZoneId /\ recordSets[i].id \notin authored) =>
        \E k \in 1..Len(BackendAnswer(activeZoneName)) :
          LET item == BackendAnswer(activeZoneName)[k]
          IN /\ item.name = recordSets[i].name
             /\ item.type = recordSets[i].type
             /\ item.values = recordSets[i].values


\* The list after the step is the list before it with one element put in front.
OneAdded(before, after) ==
  /\ Len(after) = Len(before) + 1
  /\ \A i \in 1..Len(before) : after[i + 1] = before[i]

\* The step added one PENDING change and one audit event, both for the zone.
Tracked(zoneId) ==
  /\ OneAdded(changes, changes')
  /\ changes'[1].status = "PENDING"
  /\ changes'[1].zoneId = zoneId
  /\ changes'[1].id \notin IdsOf(changes)
  /\ OneAdded(audit, audit')
  /\ audit'[1].zoneId = zoneId

\* C28: upsertRecordSet adds one PENDING change and one audit event for the
\* zone of the record set; deleteRecordSet of a stored id does so for the zone
\* of the stored record set, and of an unknown id adds neither; and no step
\* removes or alters an audit event.
C28_StagingTracked ==
  [][ /\ \A rs \in UpsertInputs : StageUpsert(rs) => Tracked(rs.zoneId)
      /\ \A id \in DeleteInputs :
           StageDelete(id) =>
             IF id \in IdsOf(recordSets)
               THEN \E i \in 1..Len(recordSets) :
                      recordSets[i].id = id /\ Tracked(recordSets[i].zoneId)
               ELSE UNCHANGED <<changes, audit>>
      /\ Len(audit') >= Len(audit)
      /\ \A i \in 1..Len(audit) : audit'[i + Len(audit') - Len(audit)] = audit[i]
    ]_vars

\* A stored record set has been deleted after another was staged: the newest
\* change and the newest audit event are the deletion's.
C28_Witness ==
  /\ Len(audit) >= 2
  /\ audit[1].action = "Deleted record"
  /\ Len(changes) >= 2
  /\ changes[1].summary[1] = "Delete"
  /\ changes[1].status = "PENDING"

\* C29: a change that is APPLIED stays in the list, APPLIED, after every
\* step; and a change that leaves the list was PENDING.
C29_AppliedIsTerminal ==
  [][ /\ \A i \in 1..Len(changes) :
           changes[i].status = "APPLIED" =>
             \E j \in 1..Len(changes') : changes'[j] = changes[i]
      /\ \A i \in 1..Len(changes) :
           (\A j \in 1..Len(changes') : changes'[j].id # changes[i].id)
             => changes[i].status = "PENDING"
      /\ \A z \in 1..Len(zones) :
           RevertAllChanges(zones[z].id) =>
             \A i \in 1..Len(changes) :
               (\A j \in 1..Len(changes') : changes'[j].id # changes[i].id)
                 => changes[i].zoneId = zones[z].id
    ]_vars

\* Changes were reverted while an APPLIED change was in the list, which is
\* still there.
C29_Witness ==
  /\ audit # <<>>
  /\ audit[1].action \in {"Reverted change", "Reverted all changes"}
  /\ \E i \in 1..Len(changes) : changes[i].status = "APPLIED"


\* ------------------------------------------------- a record set is edited
\* Labels typed into the create dialog: a relative label, a label that is
\* already qualified, and a label that repeats the zone name.
EditLabels == {<<"n">>, <<"o", ".">>, <<"z", ".", "a">>}

NextEdit ==
  \/ ZonesFetched
  \/ RecordSetsFetched
  \/ OpenCreate
  \/ SetLabelFrom("create", EditLabels)
  \/ SetValue("create")
  \/ OpenEditWithin(MaxStaged + 1)
  \/ SetTtl("edit")
  \/ \E m \in ModalIds : CancelModal(m)
  \/ \E m \in ModalIds : SaveModal(m)

\* A record set is created in the dialog, and a stored record set is opened
\* in the edit dialog and saved with its label as the dialog filled it in.
SpecEdit == Init /\ [][NextEdit]_vars

\* C30: a save of the edit dialog that is accepted, with the label the dialog
\* was opened with, stores a record set with the id and the name of the record
\* set that was opened.
C30_EditKeepsName ==
  [][ ( /\ SaveModal("edit")
        /\ modals["edit"].edit # <<>>
        /\ lastOp'.staged = 1 )
      => \E i \in 1..Len(recordSets') :
           /\ recordSets'[i].id = modals["edit"].edit[1].id
           /\ recordSets'[i].name = modals["edit"].edit[1].name
    ]_vars

====
